---------------------------- MODULE Spec2Model ----------------------------
(***************************************************************************)
(* Model of the three codecs of backend/algorithms: the Fibonacci          *)
(* (Zeckendorf) code, the Huffman code and the LZW code.                   *)
(*                                                                         *)
(* A Python str is a sequence of one-character strings; a bit string is a  *)
(* sequence over {"0", "1"}.  The characters of an LZW input are their     *)
(* code points (chr(i) is modelled by i), so an LZW string is a sequence   *)
(* of integers in 0..255.  Python lists are sequences; indices are         *)
(* 1-based here and 0-based in the source.                                 *)
(*                                                                         *)
(* A call either returns a value or raises: Return(v) and Raise(m) are    *)
(* the two outcomes, m the start of the ValueError's message, or           *)
(* "KeyError" for the one KeyError of lzw_decompress.                      *)
(***************************************************************************)
EXTENDS Integers, Sequences, FiniteSets, TLC

VARIABLES
    fpc,          \* Fibonacci driver: which call returned last
    n,            \* argument of fib_encode
    code,         \* outcome of fib_encode(n)
    result,       \* outcome of fib_decode(code)
    numbers,      \* argument of compress_dataset
    compressed,   \* outcome of compress_dataset(numbers)
    decompressed  \* outcome of decompress_dataset(compressed, len(numbers))

VARIABLES
    pynumber,       \* a Python number, the argument of fib_encode
    dataset,        \* a list of Python numbers, given to compress_dataset
    codeword,       \* a bit string, the argument of fib_decode
    stream,         \* a bit string, given to decompress_dataset
    expected_count  \* the count given to decompress_dataset with stream

\* the arguments of the calls made on arbitrary input
fibArgs == <<pynumber, dataset, codeword, stream, expected_count>>

fibVars == <<fpc, n, code, result, numbers, compressed, decompressed, fibArgs>>

VARIABLES
    hpc,            \* Huffman driver: where the caller is
    hnumbers,       \* the dataset of the caller (<<>> when it has none)
    frequencies,    \* argument of build_huffman_tree
    heap,           \* the heap of build_huffman_tree
    codebook,       \* build_codebook(root)
    hcompressed,    \* huffman_compress(hnumbers)
    hdecompressed   \* huffman_decompress(hcompressed, inverse, len(hnumbers))

VARIABLES
    hbits,          \* a bit string, given to huffman_decompress
    hcount          \* the count given to huffman_decompress with hbits

\* the arguments of the call made on arbitrary input
huffArgs == <<hbits, hcount>>

huffVars == <<hpc, hnumbers, frequencies, heap, codebook, hcompressed,
              hdecompressed, huffArgs>>

VARIABLES
    lpc,            \* LZW driver: where the caller is
    data,           \* argument of lzw_compress
    cpos,           \* lzw_compress: 1-based index of the next character
    enc,            \* lzw_compress: dictionary, next_code, current, result
    emitted_with,   \* history: the encoder's dictionary at each emission
    codes,          \* lzw_compress(data), the argument of lzw_decompress
    dpos,           \* lzw_decompress: 1-based index of the next code
    dec,            \* lzw_decompress: dictionary, next_code, current, result
    ldecompressed   \* outcome of lzw_decompress(codes)

VARIABLES
    received,       \* a list of codes from elsewhere, given to lzw_decompress
                    \* or to lzw_decompress_numbers
    lnumbers,       \* argument of lzw_compress_numbers
    lparsed         \* outcome of lzw_decompress_numbers(received)

\* the arguments and the outcome of the calls of the numeric adaptor
lzwArgs == <<received, lnumbers, lparsed>>

VARIABLES
    packer,         \* convert_lzw_to_binary: current_bits, max_code,
                    \* binary_parts when its loop has ended
    packed          \* the bit string convert_lzw_to_binary returns

packVars == <<packer, packed>>

lzwVars == <<lpc, data, cpos, enc, emitted_with, codes, dpos, dec,
             ldecompressed, lzwArgs, packVars>>

VARIABLES
    apc,            \* app.py: which call returned last
    anumbers,       \* argument of perform_compression
    araising,       \* the codecs whose call raises inside perform_compression
    sizes,          \* fib_bytes, huffman_bytes, lzw_bytes given to the
                    \* comparative analysis
    comparison      \* outcome of perform_compression, or of the analysis

appVars == <<apc, anumbers, araising, sizes, comparison>>

VARIABLE threads    \* the calls of the threads: each its own locals

vars == <<fibVars, huffVars, lzwVars, appVars, threads>>

---------------------------------------------------------------------------
(* Bounds of the model *)

MaxN == 100         \* fib_encode is called on 1..MaxN
MaxElem == 6        \* elements of a Fibonacci dataset are in 1..MaxElem
MaxLen == 4         \* a Fibonacci dataset holds 1..MaxLen elements
MaxSym == 4         \* Huffman symbols are in 1..MaxSym
MaxFreq == 4        \* a frequency table holds counts in 1..MaxFreq
MaxHuffLen == 4     \* a Huffman dataset holds 1..MaxHuffLen elements
MaxData == 4        \* an LZW input holds 0..MaxData characters
MaxHalves == 7      \* a Python number given to fib_encode is within
                    \* -MaxHalves..MaxHalves (ints) or half of it (floats)
MaxMixed == 3       \* a list of arbitrary numbers holds 1..MaxMixed elements
MaxBits == 7        \* an arbitrary bit string holds 0..MaxBits bits
MaxCount == 3       \* an arbitrary expected count is in 0..MaxCount
MaxCodes == 3       \* an arbitrary list of LZW codes holds 1..MaxCodes codes
MaxNumber == 12     \* the numbers given to lzw_compress_numbers: 1..MaxNumber
MaxNumbers == 2     \* and 1..MaxNumbers of them
MaxText == 4        \* an arbitrary text to parse holds 1..MaxText characters
MaxAppNumber == 4   \* perform_compression gets ints in 0..MaxAppNumber, and 1.5
MaxAppLen == 3      \* and 0..MaxAppLen of them
MaxSize == 3        \* a size given to the comparative analysis: 0..MaxSize
MaxConcLen == 3     \* a call of a thread gets 1..MaxConcLen characters or
                    \* symbols, or 1..MaxConcLen + 1 bits

---------------------------------------------------------------------------
(* Outcomes of a call *)

Return(v) == [ok |-> TRUE, val |-> v]
Raise(m) == [ok |-> FALSE, val |-> m]

None == [ok |-> FALSE, val |-> "no call"]

SeqsUpTo(S, k) == UNION {[1..m -> S] : m \in 1..k}

\* [x] * count
RECURSIVE Repeat(_, _)
Repeat(x, count) ==
    IF count <= 0 THEN <<>> ELSE Append(Repeat(x, count - 1), x)

---------------------------------------------------------------------------
(* fibonacci_coding.py *)

\* generate_fibs_loop with the test of line 34 written < instead of <=
RECURSIVE generate_fibs_loop_exclusive(_, _, _, _)
generate_fibs_loop_exclusive(fibs, a, b, limit) ==
    IF a < limit
    THEN generate_fibs_loop_exclusive(Append(fibs, a), b, a + b, limit)
    ELSE fibs

\* the while loop of generate_fibs
RECURSIVE generate_fibs_loop(_, _, _, _)
generate_fibs_loop(fibs, a, b, limit) ==
    IF a <= limit
    THEN generate_fibs_loop(Append(fibs, a), b, a + b, limit)
    ELSE fibs

generate_fibs(limit) ==
    IF limit < 1 THEN <<>> ELSE generate_fibs_loop(<<>>, 1, 2, limit)

\* fib_encode_loop scanning from the smallest Fibonacci number upwards
RECURSIVE fib_encode_loop_ascending(_, _, _, _)
fib_encode_loop_ascending(bits, fibs, i, remainder) ==
    LET k == Len(fibs) + 1 - i
    IN  IF remainder > 0 /\ i >= 1
        THEN IF remainder >= fibs[k]
             THEN fib_encode_loop_ascending([bits EXCEPT ![k] = "1"], fibs,
                                            i - 1, remainder - fibs[k])
             ELSE fib_encode_loop_ascending(bits, fibs, i - 1, remainder)
        ELSE bits

\* the greedy loop of fib_encode: i is the 1-based index (source i + 1)
RECURSIVE fib_encode_loop(_, _, _, _)
fib_encode_loop(bits, fibs, i, remainder) ==
    IF remainder > 0 /\ i >= 1
    THEN IF remainder >= fibs[i]
         THEN fib_encode_loop([bits EXCEPT ![i] = "1"], fibs, i - 1,
                              remainder - fibs[i])
         ELSE fib_encode_loop(bits, fibs, i - 1, remainder)
    ELSE bits

fib_encode(num) ==
    IF num <= 0
    THEN Raise("Only positive integers can be encoded")
    ELSE LET fibs == generate_fibs(num)
         IN  IF fibs = <<>>
             THEN Return(<<"1", "1">>)
             ELSE LET zeros == Repeat("0", Len(fibs))
                      bits == fib_encode_loop(zeros, fibs, Len(fibs), num)
                  IN  Return(bits \o <<"1">>)

\* A Python number.  PyInt(k) is the int k.  PyFloat(h) is the float h / 2:
\* the floats of the model are the multiples of 0.5, held as a count of
\* halves, so that a comparison a <= n of an int a with the float n is
\* 2 * a <= h and n - a is h - 2 * a.
PyInt(k) == [type |-> "int", val |-> k]
PyFloat(h) == [type |-> "float", val |-> h]

\* [x1, ..., xk] as a list of Python ints
RECURSIVE PyInts(_)
PyInts(xs) ==
    IF xs = <<>> THEN <<>> ELSE <<PyInt(Head(xs))>> \o PyInts(Tail(xs))

\* the while loop of generate_fibs when n is the float halves / 2
RECURSIVE generate_fibs_loop_float(_, _, _, _)
generate_fibs_loop_float(fibs, a, b, halves) ==
    IF 2 * a <= halves
    THEN generate_fibs_loop_float(Append(fibs, a), b, a + b, halves)
    ELSE fibs

\* generate_fibs(n) when n is the float halves / 2
generate_fibs_float(halves) ==
    IF halves < 2 THEN <<>> ELSE generate_fibs_loop_float(<<>>, 1, 2, halves)

\* the greedy loop of fib_encode when remainder is the float halves / 2
RECURSIVE fib_encode_loop_float(_, _, _, _)
fib_encode_loop_float(bits, fibs, i, halves) ==
    IF halves > 0 /\ i >= 1
    THEN IF halves >= 2 * fibs[i]
         THEN fib_encode_loop_float([bits EXCEPT ![i] = "1"], fibs, i - 1,
                                    halves - 2 * fibs[i])
         ELSE fib_encode_loop_float(bits, fibs, i - 1, halves)
    ELSE bits

\* fib_encode(n) when n is the float halves / 2: the only test of the
\* argument is n <= 0 (line 73)
fib_encode_float(halves) ==
    IF halves <= 0
    THEN Raise("Only positive integers can be encoded")
    ELSE LET fibs == generate_fibs_float(halves)
         IN  IF fibs = <<>>
             THEN Return(<<"1", "1">>)
             ELSE LET zeros == Repeat("0", Len(fibs))
                      bits == fib_encode_loop_float(zeros, fibs, Len(fibs),
                                                    halves)
                  IN  Return(bits \o <<"1">>)

\* fib_encode(v) on a Python number
fib_encode_number(v) ==
    IF v.type = "int" THEN fib_encode(v.val) ELSE fib_encode_float(v.val)

\* fib_decode_fibs one position behind: the sequence 1, 1, 2, 3, 5, ...
RECURSIVE fib_decode_fibs_canonical(_, _, _, _)
fib_decode_fibs_canonical(fibs, a, b, length) ==
    IF Len(fibs) < length
    THEN fib_decode_fibs_canonical(Append(fibs, b - a), b, a + b, length)
    ELSE fibs

\* the first `length` Fibonacci numbers 1, 2, 3, 5, ... (fib_decode's loop)
RECURSIVE fib_decode_fibs(_, _, _, _)
fib_decode_fibs(fibs, a, b, length) ==
    IF Len(fibs) < length
    THEN fib_decode_fibs(Append(fibs, a), b, a + b, length)
    ELSE fibs

\* fib_decode_sum adding the Fibonacci number of every position, set or not
RECURSIVE fib_decode_sum_every_position(_, _, _, _)
fib_decode_sum_every_position(bits, fibs, i, acc) ==
    IF i > Len(bits)
    THEN acc
    ELSE fib_decode_sum_every_position(bits, fibs, i + 1, acc + fibs[i])

\* the second for loop of fib_decode: the sum of fibs[i] over the 1 bits
RECURSIVE fib_decode_sum(_, _, _, _)
fib_decode_sum(bits, fibs, i, acc) ==
    IF i > Len(bits)
    THEN acc
    ELSE fib_decode_sum(bits, fibs, i + 1,
                        IF bits[i] = "1" THEN acc + fibs[i] ELSE acc)

\* fib_decode testing the last bit only: any code ending with 1 is taken
fib_decode_final_one(cw) ==
    IF Len(cw) < 2
    THEN Raise("Invalid Fibonacci code: too short")
    ELSE IF cw[Len(cw)] # "1"
    THEN Raise("Invalid Fibonacci code: must end with '11'")
    ELSE LET bits == SubSeq(cw, 1, Len(cw) - 1)
         IN  IF bits = <<>>
             THEN Return(1)
             ELSE LET fibs == fib_decode_fibs(<<>>, 1, 2, Len(bits))
                  IN  Return(fib_decode_sum(bits, fibs, 1, 0))

fib_decode(cw) ==
    IF Len(cw) < 2
    THEN Raise("Invalid Fibonacci code: too short")
    ELSE IF SubSeq(cw, Len(cw) - 1, Len(cw)) # <<"1", "1">>
    THEN Raise("Invalid Fibonacci code: must end with '11'")
    ELSE LET bits == SubSeq(cw, 1, Len(cw) - 1)
         IN  IF bits = <<>>
             THEN Return(1)
             ELSE LET fibs == fib_decode_fibs(<<>>, 1, 2, Len(bits))
                  IN  Return(fib_decode_sum(bits, fibs, 1, 0))

\* compress_dataset_loop putting each codeword in front of the earlier ones
RECURSIVE compress_dataset_loop_reversed(_, _, _)
compress_dataset_loop_reversed(nums, i, parts) ==
    IF i > Len(nums)
    THEN Return(parts)
    ELSE IF nums[i].type # "int" \/ nums[i].val <= 0
    THEN Raise("Invalid number in dataset")
    ELSE LET encoded == fib_encode(nums[i].val)
         IN  IF ~encoded.ok
             THEN encoded
             ELSE compress_dataset_loop_reversed(nums, i + 1,
                                                 encoded.val \o parts)

\* the for loop of compress_dataset over numbers[i..], a list of Python
\* numbers; fib_encode is reached by positive ints only
RECURSIVE compress_dataset_loop(_, _, _)
compress_dataset_loop(nums, i, parts) ==
    IF i > Len(nums)
    THEN Return(parts)
    ELSE IF nums[i].type # "int" \/ nums[i].val <= 0
    THEN Raise("Invalid number in dataset")
    ELSE LET encoded == fib_encode(nums[i].val)
         IN  IF ~encoded.ok
             THEN encoded
             ELSE compress_dataset_loop(nums, i + 1, parts \o encoded.val)

compress_dataset(nums) ==
    IF nums = <<>>
    THEN Return(<<>>)
    ELSE compress_dataset_loop(nums, 1, <<>>)

\* find_terminator taking a "11" only at an even offset from j
RECURSIVE find_terminator_aligned(_, _)
find_terminator_aligned(s, j) ==
    IF j > Len(s)
    THEN 0
    ELSE IF s[j - 1] = "1" /\ s[j] = "1"
    THEN j
    ELSE find_terminator_aligned(s, j + 2)

\* find_terminator taking the last "11" at or after position j
find_terminator_last(s, j) ==
    LET ends == {k \in j..Len(s) : s[k - 1] = "1" /\ s[k] = "1"}
    IN  IF ends = {} THEN 0 ELSE CHOOSE k \in ends : \A m \in ends : m <= k

\* the inner while of decompress_dataset: the 1-based index of the second
\* bit of the first "11" at or after position j, 0 when the loop runs out
RECURSIVE find_terminator(_, _)
find_terminator(s, j) ==
    IF j > Len(s)
    THEN 0
    ELSE IF s[j - 1] = "1" /\ s[j] = "1"
    THEN j
    ELSE find_terminator(s, j + 1)

\* decompress_dataset_loop returning what it decoded so far when the bits
\* left hold no terminator
RECURSIVE decompress_dataset_loop_partial(_, _, _)
decompress_dataset_loop_partial(s, i, nums) ==
    IF i > Len(s)
    THEN Return(nums)
    ELSE LET j == find_terminator(s, i + 1)
         IN  IF j = 0
             THEN Return(nums)
             ELSE LET number == fib_decode(SubSeq(s, i, j))
                  IN  IF ~number.ok
                      THEN number
                      ELSE decompress_dataset_loop_partial(s, j + 1,
                               Append(nums, number.val))

\* the outer while of decompress_dataset: i is the 1-based start of the
\* current codeword (source i + 1)
RECURSIVE decompress_dataset_loop(_, _, _)
decompress_dataset_loop(s, i, nums) ==
    IF i > Len(s)
    THEN Return(nums)
    ELSE LET j == find_terminator(s, i + 1)
         IN  IF j = 0
             THEN Raise("Invalid compressed data: no terminator found")
             ELSE LET number == fib_decode(SubSeq(s, i, j))
                  IN  IF ~number.ok
                      THEN number
                      ELSE decompress_dataset_loop(s, j + 1,
                                                   Append(nums, number.val))

\* decompress_dataset keeping the first count values when it decoded more
decompress_dataset_first_count(s, count) ==
    IF s = <<>>
    THEN Return(<<>>)
    ELSE LET scanned == decompress_dataset_loop(s, 1, <<>>)
         IN  IF ~scanned.ok
             THEN scanned
             ELSE IF Len(scanned.val) < count
             THEN Raise("count mismatch")
             ELSE Return(SubSeq(scanned.val, 1, count))

decompress_dataset(s, count) ==
    IF s = <<>>
    THEN Return(<<>>)
    ELSE LET scanned == decompress_dataset_loop(s, 1, <<>>)
         IN  IF ~scanned.ok
             THEN scanned
             ELSE IF Len(scanned.val) # count
             THEN Raise("count mismatch")
             ELSE scanned

---------------------------------------------------------------------------
(* huffman_coding.py *)
(*                                                                         *)
(* An optional object is a sequence of length at most one: NoNode is None  *)
(* and <<x>> is the object x.  A HuffmanNode is a record of its four       *)
(* attributes.  A dict is the sequence of its <<key, value>> items in      *)
(* insertion order, each key once.                                         *)

NoNode == <<>>

EmptyDict == <<>>

\* the keys of a dict
DictKeys(d) == {d[at][1] : at \in 1..Len(d)}

\* d[key], for a key of d
DictGet(d, key) == d[CHOOSE at \in 1..Len(d) : d[at][1] = key][2]

\* d[key] = value: a new key goes last, a known key keeps its place
DictSet(d, key, value) ==
    IF key \in DictKeys(d)
    THEN [d EXCEPT ![CHOOSE at \in 1..Len(d) : d[at][1] = key] = <<key, value>>]
    ELSE Append(d, <<key, value>>)

\* HuffmanNode.__init__
HuffmanNode(freq, value, left, right) ==
    [freq |-> freq, value |-> value, left |-> left, right |-> right]

\* HuffmanNode.__lt__ comparing the other way round: a max-hp
HuffmanNode_gt(self, other) == self.freq > other.freq

\* HuffmanNode.__lt__
HuffmanNode_lt(self, other) == self.freq < other.freq

\* HuffmanNode.is_leaf
is_leaf(node) == node.value # NoNode

\* heapq._siftdown(heap, startpos, pos): positions are 1-based, the parent
\* of pos is pos \div 2
RECURSIVE siftdown(_, _, _, _)
siftdown(hp, startpos, pos, newitem) ==
    IF pos > startpos /\ HuffmanNode_lt(newitem, hp[pos \div 2])
    THEN siftdown([hp EXCEPT ![pos] = hp[pos \div 2]], startpos,
                  pos \div 2, newitem)
    ELSE [hp EXCEPT ![pos] = newitem]

\* heapq._siftup(heap, pos): bubble the smaller child up until a leaf is
\* hit, then sift the item down from there
RECURSIVE siftup_loop(_, _, _, _)
siftup_loop(hp, startpos, pos, newitem) ==
    LET childpos == 2 * pos
        rightpos == childpos + 1
        smaller == IF rightpos <= Len(hp)
                      /\ ~HuffmanNode_lt(hp[childpos], hp[rightpos])
                   THEN rightpos
                   ELSE childpos
    IN  IF childpos <= Len(hp)
        THEN siftup_loop([hp EXCEPT ![pos] = hp[smaller]], startpos,
                         smaller, newitem)
        ELSE siftdown([hp EXCEPT ![pos] = newitem], startpos, pos, newitem)

siftup(hp, pos) == siftup_loop(hp, pos, pos, hp[pos])

\* heapq.heapify(x): for i in reversed(range(n // 2)): _siftup(x, i)
RECURSIVE heapify_loop(_, _)
heapify_loop(hp, i) ==
    IF i >= 1 THEN heapify_loop(siftup(hp, i), i - 1) ELSE hp

heapify(x) == heapify_loop(x, Len(x) \div 2)

\* heappop taking the last item of the list instead of the root
heappop_last(hp) == <<hp[Len(hp)], SubSeq(hp, 1, Len(hp) - 1)>>

\* heapq.heappop(heap): <<the item returned, the heap left>>
heappop(hp) ==
    LET lastelt == hp[Len(hp)]
        rest == SubSeq(hp, 1, Len(hp) - 1)
    IN  IF rest # <<>>
        THEN <<rest[1], siftup([rest EXCEPT ![1] = lastelt], 1)>>
        ELSE <<lastelt, rest>>

\* heapq.heappush(heap, item)
heappush(hp, item) ==
    siftdown(Append(hp, item), 1, Len(hp) + 1, item)

\* Counter(numbers): the items in order of first occurrence
RECURSIVE Counter_loop(_, _, _)
Counter_loop(nums, i, items) ==
    IF i > Len(nums)
    THEN items
    ELSE Counter_loop(nums, i + 1,
             DictSet(items, nums[i],
                     IF nums[i] \in DictKeys(items)
                     THEN DictGet(items, nums[i]) + 1
                     ELSE 1))

Counter(nums) == Counter_loop(nums, 1, EmptyDict)

\* [HuffmanNode(freq, value) for value, freq in frequencies.items()]
RECURSIVE leaf_nodes(_, _)
leaf_nodes(freqs, upto) ==
    IF upto = 0
    THEN <<>>
    ELSE Append(leaf_nodes(freqs, upto - 1),
                HuffmanNode(freqs[upto][2], <<freqs[upto][1]>>,
                            NoNode, NoNode))

\* the heap of leaf nodes build_huffman_tree starts from
leaf_heap(freqs) == heapify(leaf_nodes(freqs, Len(freqs)))

\* one iteration of the while loop of build_huffman_tree
merge_step(hp) ==
    LET first == heappop(hp)
        second == heappop(first[2])
        left == first[1]
        right == second[1]
        parent == HuffmanNode(left.freq + right.freq, NoNode,
                              <<left>>, <<right>>)
    IN  heappush(second[2], parent)

RECURSIVE build_huffman_tree_loop(_)
build_huffman_tree_loop(hp) ==
    IF Len(hp) > 1
    THEN build_huffman_tree_loop(merge_step(hp))
    ELSE <<hp[1]>>

build_huffman_tree(freqs) ==
    IF freqs = <<>>
    THEN NoNode
    ELSE build_huffman_tree_loop(leaf_heap(freqs))

\* traverse labelling both branches with "0"
RECURSIVE traverse_same_label(_, _, _)
traverse_same_label(node, bits, cb) ==
    IF is_leaf(node)
    THEN DictSet(cb, node.value[1], IF bits # <<>> THEN bits ELSE <<"0">>)
    ELSE LET afterLeft ==
                 IF node.left # NoNode
                 THEN traverse_same_label(node.left[1], Append(bits, "0"),
                                          cb)
                 ELSE cb
         IN  IF node.right # NoNode
             THEN traverse_same_label(node.right[1], Append(bits, "0"),
                                      afterLeft)
             ELSE afterLeft

\* the nested traverse of build_codebook; cb is the dict it fills
RECURSIVE traverse(_, _, _)
traverse(node, bits, cb) ==
    IF is_leaf(node)
    THEN DictSet(cb, node.value[1], IF bits # <<>> THEN bits ELSE <<"0">>)
    ELSE LET afterLeft ==
                 IF node.left # NoNode
                 THEN traverse(node.left[1], Append(bits, "0"), cb)
                 ELSE cb
         IN  IF node.right # NoNode
             THEN traverse(node.right[1], Append(bits, "1"), afterLeft)
             ELSE afterLeft

build_codebook(root) ==
    IF root = NoNode THEN EmptyDict ELSE traverse(root[1], <<>>, EmptyDict)

\* ''.join(codebook[num] for num in numbers)
RECURSIVE join_codes(_, _, _)
join_codes(cb, nums, i) ==
    IF i > Len(nums)
    THEN <<>>
    ELSE DictGet(cb, nums[i]) \o join_codes(cb, nums, i + 1)

huffman_compress(nums) ==
    IF nums = <<>>
    THEN <<>>
    ELSE LET freqs == Counter(nums)
         IN  IF Len(freqs) = 1
             THEN Repeat("0", Len(nums))
             ELSE join_codes(build_codebook(build_huffman_tree(freqs)),
                             nums, 1)

\* huffman_decompress_loop without the reset of current_code after a match
RECURSIVE huffman_decompress_loop_no_reset(_, _, _, _, _, _)
huffman_decompress_loop_no_reset(s, inverted, count, i, current_code, nums) ==
    IF i > Len(s)
    THEN nums
    ELSE LET grown == Append(current_code, s[i])
         IN  IF grown \in DictKeys(inverted)
             THEN IF Len(nums) + 1 = count
                  THEN Append(nums, DictGet(inverted, grown))
                  ELSE huffman_decompress_loop_no_reset(s, inverted, count,
                           i + 1, grown, Append(nums, DictGet(inverted, grown)))
             ELSE huffman_decompress_loop_no_reset(s, inverted, count, i + 1,
                                                   grown, nums)

\* the for loop of huffman_decompress over compressed_string[i..]
RECURSIVE huffman_decompress_loop(_, _, _, _, _, _)
huffman_decompress_loop(s, inverted, count, i, current_code, nums) ==
    IF i > Len(s)
    THEN nums
    ELSE LET grown == Append(current_code, s[i])
         IN  IF grown \in DictKeys(inverted)
             THEN IF Len(nums) + 1 = count
                  THEN Append(nums, DictGet(inverted, grown))
                  ELSE huffman_decompress_loop(s, inverted, count, i + 1,
                           <<>>, Append(nums, DictGet(inverted, grown)))
             ELSE huffman_decompress_loop(s, inverted, count, i + 1, grown,
                                          nums)

huffman_decompress(s, inverted, count) ==
    IF s = <<>>
    THEN <<>>
    ELSE huffman_decompress_loop(s, inverted, count, 1, <<>>, <<>>)

\* the codebook_inverted argument of huffman_decompress, "mapping from
\* codes to values": {code: value for value, code in codebook.items()}
RECURSIVE codebook_inverted_loop(_, _, _)
codebook_inverted_loop(cb, k, inverted) ==
    IF k > Len(cb)
    THEN inverted
    ELSE codebook_inverted_loop(cb, k + 1,
                                DictSet(inverted, cb[k][2], cb[k][1]))

codebook_inverted(cb) == codebook_inverted_loop(cb, 1, EmptyDict)

---------------------------------------------------------------------------
(* lzw_coding.py *)
(*                                                                         *)
(* The character chr(i) is the integer i and a str is a sequence of        *)
(* them; the inputs are over the byte alphabet, so every single character  *)
(* is a key of the encoder's dictionary.                                   *)

AlphabetSize == 256

\* {chr(i): i for i in range(256)}: the items for chr(lo) .. chr(hi)
RECURSIVE encoder_base(_, _)
encoder_base(lo, hi) ==
    IF lo = hi
    THEN <<<<<<lo>>, lo>>>>
    ELSE encoder_base(lo, (lo + hi) \div 2)
         \o encoder_base((lo + hi) \div 2 + 1, hi)

\* {i: chr(i) for i in range(256)}: the items for lo .. hi
RECURSIVE decoder_base(_, _)
decoder_base(lo, hi) ==
    IF lo = hi
    THEN <<<<lo, <<lo>>>>>>
    ELSE decoder_base(lo, (lo + hi) \div 2)
         \o decoder_base((lo + hi) \div 2 + 1, hi)

\* the locals of lzw_compress before its loop
lzw_compress_init ==
    [dictionary |-> encoder_base(0, AlphabetSize - 1), next_code |-> AlphabetSize,
     current |-> <<>>, result |-> <<>>]

\* one iteration of the for loop of lzw_compress, on the character char
lzw_compress_step(e, char) ==
    LET combined == Append(e.current, char)
    IN  IF combined \in DictKeys(e.dictionary)
        THEN [e EXCEPT !.current = combined]
        ELSE [dictionary |-> DictSet(e.dictionary, combined, e.next_code),
              next_code |-> e.next_code + 1,
              current |-> <<char>>,
              result |-> Append(e.result, DictGet(e.dictionary, e.current))]

\* after the loop of lzw_compress: the code of the remaining pattern
lzw_compress_flush(e) ==
    IF e.current # <<>>
    THEN [e EXCEPT !.result = Append(e.result,
                                     DictGet(e.dictionary, e.current))]
    ELSE e

\* 'dictionary_size' of get_lzw_compression_info, for the codes it got
dictionary_size(cs) == AlphabetSize + Len(cs)

\* format(code, '0{width}b') for a code >= 0: the binary digits of code,
\* padded with zeros on the left to width digits
RECURSIVE format_binary(_, _)
format_binary(c, width) ==
    IF c < 2 /\ width <= 1
    THEN <<IF c = 1 THEN "1" ELSE "0">>
    ELSE Append(format_binary(c \div 2, width - 1),
                IF c % 2 = 1 THEN "1" ELSE "0")

\* the locals of convert_lzw_to_binary before its loop
convert_lzw_to_binary_init ==
    [current_bits |-> 9, max_code |-> 2 ^ 9 - 1, binary_parts |-> <<>>]

\* the while loop of convert_lzw_to_binary: widen until c fits
RECURSIVE convert_lzw_to_binary_widen(_, _)
convert_lzw_to_binary_widen(p, c) ==
    IF c > p.max_code
    THEN convert_lzw_to_binary_widen(
             [p EXCEPT !.current_bits = p.current_bits + 1,
                       !.max_code = 2 ^ (p.current_bits + 1) - 1], c)
    ELSE p

\* one iteration of the for loop of convert_lzw_to_binary, on the code c
convert_lzw_to_binary_step(p, c) ==
    LET widened == convert_lzw_to_binary_widen(p, c)
    IN  [widened EXCEPT !.binary_parts =
             Append(widened.binary_parts,
                    format_binary(c, widened.current_bits))]

\* the for loop of convert_lzw_to_binary over codes[lo..hi], one half
\* after the other, as in lzw_compress_loop; the test of current_bits
\* never fails
RECURSIVE convert_lzw_to_binary_loop(_, _, _, _)
convert_lzw_to_binary_loop(p, cs, lo, hi) ==
    IF lo > hi
    THEN p
    ELSE IF lo = hi
    THEN convert_lzw_to_binary_step(p, cs[lo])
    ELSE LET half == convert_lzw_to_binary_loop(p, cs, lo, (lo + hi) \div 2)
         IN  IF half.current_bits >= 9
             THEN convert_lzw_to_binary_loop(half, cs,
                                             (lo + hi) \div 2 + 1, hi)
             ELSE half

\* ''.join(parts[lo..hi])
RECURSIVE join_parts(_, _, _)
join_parts(parts, lo, hi) ==
    IF lo > hi
    THEN <<>>
    ELSE IF lo = hi
    THEN parts[lo]
    ELSE join_parts(parts, lo, (lo + hi) \div 2)
         \o join_parts(parts, (lo + hi) \div 2 + 1, hi)

convert_lzw_to_binary(cs) ==
    IF cs = <<>>
    THEN <<>>
    ELSE LET p == convert_lzw_to_binary_loop(convert_lzw_to_binary_init,
                                             cs, 1, Len(cs))
         IN  join_parts(p.binary_parts, 1, Len(p.binary_parts))

\* the locals of lzw_decompress before its loop; codes[0] is looked up
\* without a test, so a first code that is no key raises KeyError
lzw_decompress_init(cs) ==
    LET dictionary == decoder_base(0, AlphabetSize - 1)
    IN  IF cs[1] \in DictKeys(dictionary)
        THEN [ok |-> TRUE, dictionary |-> dictionary,
              next_code |-> AlphabetSize,
              current |-> DictGet(dictionary, cs[1]),
              result |-> DictGet(dictionary, cs[1])]
        ELSE [ok |-> FALSE, dictionary |-> dictionary,
              next_code |-> AlphabetSize, current |-> <<>>,
              result |-> "KeyError"]

\* lzw_decompress_step decoding a code equal to next_code as current alone
lzw_decompress_step_no_self_reference(d, c) ==
    IF c \notin DictKeys(d.dictionary) /\ c # d.next_code
    THEN [d EXCEPT !.ok = FALSE, !.result = "Invalid LZW code"]
    ELSE LET entry == IF c \in DictKeys(d.dictionary)
                      THEN DictGet(d.dictionary, c)
                      ELSE d.current
         IN  [ok |-> TRUE,
              dictionary |-> DictSet(d.dictionary, d.next_code,
                                     Append(d.current, entry[1])),
              next_code |-> d.next_code + 1,
              current |-> entry,
              result |-> d.result \o entry]

\* lzw_decompress_step inserting current + entry instead of
\* current + entry[0]
lzw_decompress_step_whole_entry(d, c) ==
    IF c \notin DictKeys(d.dictionary) /\ c # d.next_code
    THEN [d EXCEPT !.ok = FALSE, !.result = "Invalid LZW code"]
    ELSE LET entry == IF c \in DictKeys(d.dictionary)
                      THEN DictGet(d.dictionary, c)
                      ELSE Append(d.current, d.current[1])
         IN  [ok |-> TRUE,
              dictionary |-> DictSet(d.dictionary, d.next_code,
                                     d.current \o entry),
              next_code |-> d.next_code + 1,
              current |-> entry,
              result |-> d.result \o entry]

\* one iteration of the for loop of lzw_decompress, on the code c; result
\* is kept joined
lzw_decompress_step(d, c) ==
    IF c \notin DictKeys(d.dictionary) /\ c # d.next_code
    THEN [d EXCEPT !.ok = FALSE, !.result = "Invalid LZW code"]
    ELSE LET entry == IF c \in DictKeys(d.dictionary)
                      THEN DictGet(d.dictionary, c)
                      ELSE Append(d.current, d.current[1])
         IN  [ok |-> TRUE,
              dictionary |-> DictSet(d.dictionary, d.next_code,
                                     Append(d.current, entry[1])),
              next_code |-> d.next_code + 1,
              current |-> entry,
              result |-> d.result \o entry]

\* the for loop of lzw_compress over data[lo..hi], one half after the
\* other: a text of some hundred characters is beyond the depth TLC can
\* recurse to one character at a time.  The test of next_code, which
\* never fails, makes TLC finish the first half before the second starts.
RECURSIVE lzw_compress_loop(_, _, _, _)
lzw_compress_loop(e, s, lo, hi) ==
    IF lo > hi
    THEN e
    ELSE IF lo = hi
    THEN lzw_compress_step(e, s[lo])
    ELSE LET half == lzw_compress_loop(e, s, lo, (lo + hi) \div 2)
         IN  IF half.next_code >= AlphabetSize
             THEN lzw_compress_loop(half, s, (lo + hi) \div 2 + 1, hi)
             ELSE half

lzw_compress(s) ==
    IF s = <<>>
    THEN <<>>
    ELSE lzw_compress_flush(
             lzw_compress_loop(lzw_compress_init, s, 1, Len(s))).result

\* the for loop of lzw_decompress over codes[i..], left at the first raise
RECURSIVE lzw_decompress_loop(_, _, _)
lzw_decompress_loop(d, cs, i) ==
    IF i > Len(cs) \/ ~d.ok
    THEN d
    ELSE lzw_decompress_loop(lzw_decompress_step(d, cs[i]), cs, i + 1)

\* Raise("KeyError") is the KeyError of line 86, Raise("Invalid LZW code")
\* the ValueError of line 97
lzw_decompress(cs) ==
    IF cs = <<>>
    THEN Return(<<>>)
    ELSE LET d == lzw_decompress_loop(lzw_decompress_init(cs), cs, 2)
         IN  IF d.ok THEN Return(d.result) ELSE Raise(d.result)

\* the characters of the numeric adaptor, as code points
Comma == 44
Minus == 45
Plus == 43
Underscore == 95
Zero == 48
Digits == Zero..(Zero + 9)

\* the characters of chr(0..255) that str.strip() and int() take as
\* whitespace
Whitespace == {9, 10, 11, 12, 13, 28, 29, 30, 31, 32, 133, 160}

\* str(k) for a non-negative int k
RECURSIVE str_digits(_)
str_digits(k) ==
    IF k < 10
    THEN <<Zero + k>>
    ELSE Append(str_digits(k \div 10), Zero + (k % 10))

\* str(k) for an int k
str(k) == IF k < 0 THEN <<Minus>> \o str_digits(-k) ELSE str_digits(k)

\* map(str, numbers)
RECURSIVE map_str(_)
map_str(nums) ==
    IF nums = <<>> THEN <<>> ELSE <<str(Head(nums))>> \o map_str(Tail(nums))

\* sep.join(parts[i..])
RECURSIVE join(_, _, _)
join(sep, parts, i) ==
    IF i > Len(parts)
    THEN <<>>
    ELSE IF i = Len(parts)
    THEN parts[i]
    ELSE parts[i] \o sep \o join(sep, parts, i + 1)

lzw_compress_numbers(nums) ==
    IF nums = <<>>
    THEN <<>>
    ELSE lzw_compress(join(<<Comma>>, map_str(nums), 1))

\* split_loop dropping the empty tokens, as str.split() without a
\* separator does
RECURSIVE split_loop_drop_empty(_, _, _, _, _)
split_loop_drop_empty(s, sep, i, token, parts) ==
    LET kept == IF token = <<>> THEN parts ELSE Append(parts, token)
    IN  IF i > Len(s)
        THEN kept
        ELSE IF s[i] = sep
        THEN split_loop_drop_empty(s, sep, i + 1, <<>>, kept)
        ELSE split_loop_drop_empty(s, sep, i + 1, Append(token, s[i]), parts)

\* s.split(sep) from s[i..], token being the characters since the last sep
RECURSIVE split_loop(_, _, _, _, _)
split_loop(s, sep, i, token, parts) ==
    IF i > Len(s)
    THEN Append(parts, token)
    ELSE IF s[i] = sep
    THEN split_loop(s, sep, i + 1, <<>>, Append(parts, token))
    ELSE split_loop(s, sep, i + 1, Append(token, s[i]), parts)

split(s, sep) == split_loop(s, sep, 1, <<>>, <<>>)

\* t.strip(): t without its leading and trailing whitespace
RECURSIVE strip(_)
strip(t) ==
    IF t = <<>>
    THEN t
    ELSE IF t[1] \in Whitespace
    THEN strip(Tail(t))
    ELSE IF t[Len(t)] \in Whitespace
    THEN strip(SubSeq(t, 1, Len(t) - 1))
    ELSE t

\* the digits of an int literal: decimal digits, single underscores
\* allowed between two digits
IntDigits(b) ==
    /\ b # <<>>
    /\ b[1] \in Digits
    /\ b[Len(b)] \in Digits
    /\ \A i \in 1..Len(b) : b[i] \in Digits \cup {Underscore}
    /\ \A i \in 1..(Len(b) - 1) : ~(b[i] = Underscore /\ b[i + 1] = Underscore)

\* the value of the digits b[1..i], underscores skipped
RECURSIVE digits_value(_, _)
digits_value(b, i) ==
    IF i = 0
    THEN 0
    ELSE IF b[i] = Underscore
    THEN digits_value(b, i - 1)
    ELSE 10 * digits_value(b, i - 1) + (b[i] - Zero)

\* int(tok) of a str: whitespace around, an optional sign, then the
\* digits; anything else raises ValueError
int(tok) ==
    LET t == strip(tok)
        signed == t # <<>> /\ t[1] \in {Plus, Minus}
        body == IF signed THEN Tail(t) ELSE t
    IN  IF ~IntDigits(body)
        THEN Raise("invalid literal for int()")
        ELSE IF signed /\ t[1] = Minus
        THEN Return(-digits_value(body, Len(body)))
        ELSE Return(digits_value(body, Len(body)))

\* [int(x) for x in tokens], inside the try of lzw_decompress_numbers
RECURSIVE parse_numbers(_, _, _)
parse_numbers(tokens, i, nums) ==
    IF i > Len(tokens)
    THEN Return(nums)
    ELSE LET parsed == int(tokens[i])
         IN  IF ~parsed.ok
             THEN Raise("Failed to parse decompressed data as numbers")
             ELSE parse_numbers(tokens, i + 1, Append(nums, parsed.val))

\* lzw_decompress_numbers splitting the text at the digit "1"
lzw_decompress_numbers_digit_delimiter(cs) ==
    IF cs = <<>>
    THEN Return(<<>>)
    ELSE LET decompressed_string == lzw_decompress(cs)
         IN  IF ~decompressed_string.ok
             THEN decompressed_string
             ELSE parse_numbers(split(decompressed_string.val, Zero + 1), 1,
                                <<>>)

\* lzw_decompress is called outside the try: what it raises goes through
lzw_decompress_numbers(cs) ==
    IF cs = <<>>
    THEN Return(<<>>)
    ELSE LET decompressed_string == lzw_decompress(cs)
         IN  IF ~decompressed_string.ok
             THEN decompressed_string
             ELSE parse_numbers(split(decompressed_string.val, Comma), 1,
                                <<>>)

---------------------------------------------------------------------------
(* app.py: perform_compression *)
(*                                                                         *)
(* A size in bytes is bits / 8, a float that is exact for every int of     *)
(* bits: it is held as its number of eighths of a byte.  A ratio a / b of  *)
(* two sizes is the pair <<a, b>>, and <<0, 1>> is 0.  The result holds    *)
(* the numbers its strings are formatted from; the times, hashes and       *)
(* resource figures are left out.                                          *)

\* get_size_in_bits(data) for a list
get_size_in_bits(xs) == Len(xs) * 32

get_size_in_bytes(bits) == bits

\* original_bytes / compressed_bytes if compressed_bytes > 0 else 0
compression_ratio(original_bytes, compressed_bytes) ==
    IF compressed_bytes > 0
    THEN <<original_bytes, compressed_bytes>>
    ELSE <<0, 1>>

\* the ints of a list of Python ints
RECURSIVE int_values(_)
int_values(nums) ==
    IF nums = <<>>
    THEN <<>>
    ELSE <<Head(nums).val>> \o int_values(Tail(nums))

\* str(codes) for a list of ints: "[c1, c2, ...]"
list_str(cs) == <<91>> \o join(<<Comma, 32>>, map_str(cs), 1) \o <<93>>

\* {k: v for k, v in methods.items() if v > 0}, over methods[1..upto]
RECURSIVE valid_methods(_, _)
valid_methods(methods, upto) ==
    IF upto = 0
    THEN EmptyDict
    ELSE LET before == valid_methods(methods, upto - 1)
         IN  IF methods[upto][2] > 0
             THEN Append(before, methods[upto])
             ELSE before

\* min_by_value keeping the last of the items of least value
RECURSIVE min_by_value_last(_, _, _)
min_by_value_last(items, i, least) ==
    IF i > Len(items)
    THEN least
    ELSE min_by_value_last(items, i + 1,
                           IF items[i][2] <= least[2] THEN items[i]
                                                      ELSE least)

\* min(items, key=lambda x: x[1]) over items[i..], least the minimum so
\* far: the first of the items of least value
RECURSIVE min_by_value(_, _, _)
min_by_value(items, i, least) ==
    IF i > Len(items)
    THEN least
    ELSE min_by_value(items, i + 1,
                      IF items[i][2] < least[2] THEN items[i] ELSE least)

\* the comparative analysis of perform_compression: best_method
best_method(fib_bytes, huffman_bytes, lzw_bytes) ==
    LET methods == <<<<"Fibonacci", fib_bytes>>, <<"Huffman", huffman_bytes>>,
                     <<"LZW", lzw_bytes>>>>
        valid == valid_methods(methods, Len(methods))
    IN  IF valid # EmptyDict
        THEN min_by_value(valid, 2, valid[1])[1]
        ELSE "Fibonacci"

\* what perform_compression reports of the three codecs
Comparative(original_bytes, fib_bytes, huffman_bytes, lzw_bytes) ==
    [fib_bytes |-> fib_bytes,
     fib_ratio |-> compression_ratio(original_bytes, fib_bytes),
     huffman_bytes |-> huffman_bytes,
     huffman_ratio |-> compression_ratio(original_bytes, huffman_bytes),
     lzw_bytes |-> lzw_bytes,
     lzw_ratio |-> compression_ratio(original_bytes, lzw_bytes),
     best_method |-> best_method(fib_bytes, huffman_bytes, lzw_bytes)]

\* perform_compression(numbers) on a list of Python numbers.  The calls of
\* the Fibonacci codec and max(numbers) stand outside any try, so what
\* they raise leaves the function; the calls of huffman_compress and
\* lzw_compress stand in try ... except Exception, and raising holds the
\* codecs whose call raises there (they raise for no list of positive
\* ints of their own accord: a MemoryError is what is left).
perform_compression(nums, raising) ==
    LET fib_compressed == compress_dataset(nums)
    IN  IF ~fib_compressed.ok
        THEN fib_compressed
        ELSE LET fib_decompressed ==
                     decompress_dataset(fib_compressed.val, Len(nums))
             IN  IF ~fib_decompressed.ok
                 THEN fib_decompressed
                 ELSE IF nums = <<>>
                 THEN Raise("max() arg is an empty sequence")
                 ELSE LET numbers_ == int_values(nums)
                          input_string ==
                              join(<<Comma>>, map_str(numbers_), 1)
                          original_bytes ==
                              get_size_in_bytes(get_size_in_bits(nums))
                          fib_bytes ==
                              get_size_in_bytes(Len(fib_compressed.val))
                          huffman_bytes ==
                              IF "Huffman" \in raising
                              THEN 0
                              ELSE get_size_in_bytes(
                                       Len(huffman_compress(numbers_)))
                          lzw_bytes ==
                              IF "LZW" \in raising
                              THEN 0
                              ELSE get_size_in_bytes(
                                       Len(list_str(
                                           lzw_compress(input_string))) * 8)
                      IN  Return(Comparative(original_bytes, fib_bytes,
                                             huffman_bytes, lzw_bytes))

---------------------------------------------------------------------------
(* The Fibonacci driver: the calls of test_fibonacci_coding, and each    *)
(* function called once on an arbitrary argument                           *)

FibInit ==
    /\ fpc = "idle"
    /\ n = 0
    /\ code = None
    /\ result = None
    /\ numbers = <<>>
    /\ compressed = None
    /\ decompressed = None
    /\ pynumber = PyInt(0)
    /\ dataset = <<>>
    /\ codeword = <<>>
    /\ stream = <<>>
    /\ expected_count = 0

\* code = fib_encode(num)
FibEncodeCall ==
    /\ fpc = "idle"
    /\ \E num \in 1..MaxN :
          /\ n' = num
          /\ code' = fib_encode(num)
    /\ fpc' = "encoded"
    /\ UNCHANGED <<result, numbers, compressed, decompressed>>
    /\ UNCHANGED fibArgs
    /\ UNCHANGED <<huffVars, lzwVars, appVars, threads>>

\* decoded = fib_decode(encoded)
FibDecodeCall ==
    /\ fpc = "encoded"
    /\ code.ok
    /\ result' = fib_decode(code.val)
    /\ fpc' = "decoded"
    /\ UNCHANGED <<n, code, numbers, compressed, decompressed>>
    /\ UNCHANGED fibArgs
    /\ UNCHANGED <<huffVars, lzwVars, appVars, threads>>

\* compressed = compress_dataset(dataset)
CompressDatasetCall ==
    /\ fpc = "idle"
    /\ \E xs \in SeqsUpTo(1..MaxElem, MaxLen) :
          /\ numbers' = xs
          /\ compressed' = compress_dataset(PyInts(xs))
    /\ fpc' = "compressed"
    /\ UNCHANGED <<n, code, result, decompressed>>
    /\ UNCHANGED fibArgs
    /\ UNCHANGED <<huffVars, lzwVars, appVars, threads>>

\* decompressed = decompress_dataset(compressed, len(dataset))
DecompressDatasetCall ==
    /\ fpc = "compressed"
    /\ compressed.ok
    /\ decompressed' = decompress_dataset(compressed.val, Len(numbers))
    /\ fpc' = "decompressed"
    /\ UNCHANGED <<n, code, result, numbers, compressed>>
    /\ UNCHANGED fibArgs
    /\ UNCHANGED <<huffVars, lzwVars, appVars, threads>>

\* the Python numbers given to fib_encode: ints and floats, of both signs
PyNumbers ==
    {PyInt(k) : k \in -MaxHalves..MaxHalves}
    \cup {PyFloat(h) : h \in -MaxHalves..MaxHalves}

\* the elements of the lists given to compress_dataset: -1, 0, 1, 2 and
\* the floats -0.5, 1.0, 1.5
DatasetNumbers ==
    {PyInt(k) : k \in -1..2} \cup {PyFloat(h) : h \in {-1, 2, 3}}

\* the bit strings of at most k bits
BitStrings(k) == {<<>>} \cup SeqsUpTo({"0", "1"}, k)

\* fib_encode(v) on any number v
FibEncodeNumberCall ==
    /\ fpc = "idle"
    /\ \E v \in PyNumbers :
          /\ pynumber' = v
          /\ code' = fib_encode_number(v)
    /\ fpc' = "encoded_number"
    /\ UNCHANGED <<n, result, numbers, compressed, decompressed>>
    /\ UNCHANGED <<dataset, codeword, stream, expected_count>>
    /\ UNCHANGED <<huffVars, lzwVars, appVars, threads>>

\* compress_dataset(vs) on a list of any numbers
CompressNumbersCall ==
    /\ fpc = "idle"
    /\ \E vs \in SeqsUpTo(DatasetNumbers, MaxMixed) :
          /\ dataset' = vs
          /\ compressed' = compress_dataset(vs)
    /\ fpc' = "compressed_numbers"
    /\ UNCHANGED <<n, code, result, numbers, decompressed>>
    /\ UNCHANGED <<pynumber, codeword, stream, expected_count>>
    /\ UNCHANGED <<huffVars, lzwVars, appVars, threads>>

\* The (number, codeword) pairs of the module's test function
test_cases ==
    << <<1, <<"1", "1">>>>,
       <<2, <<"0", "1", "1">>>>,
       <<3, <<"0", "0", "1", "1">>>>,
       <<4, <<"1", "0", "1", "1">>>>,
       <<5, <<"0", "0", "0", "1", "1">>>>,
       <<6, <<"1", "0", "0", "1", "1">>>>,
       <<7, <<"0", "1", "0", "1", "1">>>>,
       <<8, <<"0", "0", "0", "0", "1", "1">>>>,
       <<10, <<"0", "1", "0", "0", "1", "1">>>>,
       <<100, <<"0", "0", "0", "1", "0", "1", "0", "0", "1", "1">>>> >>

\* fib_decode(cw) on any bit string cw
FibDecodeCodewordCall ==
    /\ fpc = "idle"
    /\ \E cw \in BitStrings(MaxBits)
                  \cup {test_cases[i][2] : i \in DOMAIN test_cases} :
          /\ codeword' = cw
          /\ result' = fib_decode(cw)
    /\ fpc' = "decoded_codeword"
    /\ UNCHANGED <<n, code, numbers, compressed, decompressed>>
    /\ UNCHANGED <<pynumber, dataset, stream, expected_count>>
    /\ UNCHANGED <<huffVars, lzwVars, appVars, threads>>

\* decompress_dataset(s, k) on any bit string s and any count k
DecompressStreamCall ==
    /\ fpc = "idle"
    /\ \E s \in BitStrings(MaxBits), k \in 0..MaxCount :
          /\ stream' = s
          /\ expected_count' = k
          /\ decompressed' = decompress_dataset(s, k)
    /\ fpc' = "decompressed_stream"
    /\ UNCHANGED <<n, code, result, numbers, compressed>>
    /\ UNCHANGED <<pynumber, dataset, codeword>>
    /\ UNCHANGED <<huffVars, lzwVars, appVars, threads>>

\* fib_encode(fib_decode(cw)) for a bit string cw that fib_decode accepted
FibEncodeDecodedCall ==
    /\ fpc = "decoded_codeword"
    /\ result.ok
    /\ code' = fib_encode(result.val)
    /\ fpc' = "reencoded"
    /\ UNCHANGED <<n, result, numbers, compressed, decompressed>>
    /\ UNCHANGED fibArgs
    /\ UNCHANGED <<huffVars, lzwVars, appVars, threads>>

\* compress_dataset(decompress_dataset(s, k)) for a stream s that
\* decompress_dataset accepted
CompressDecompressedCall ==
    /\ fpc = "decompressed_stream"
    /\ decompressed.ok
    /\ compressed' = compress_dataset(PyInts(decompressed.val))
    /\ fpc' = "recompressed"
    /\ UNCHANGED <<n, code, result, numbers, decompressed>>
    /\ UNCHANGED fibArgs
    /\ UNCHANGED <<huffVars, lzwVars, appVars, threads>>

FibNext ==
    \/ FibEncodeDecodedCall
    \/ CompressDecompressedCall
    \/ FibEncodeCall
    \/ FibDecodeCall
    \/ CompressDatasetCall
    \/ DecompressDatasetCall
    \/ FibEncodeNumberCall
    \/ CompressNumbersCall
    \/ FibDecodeCodewordCall
    \/ DecompressStreamCall

---------------------------------------------------------------------------
(* The Huffman driver: get_huffman_compression_info builds the tree and    *)
(* the codebook of a dataset and compresses it; build_huffman_tree is      *)
(* also called on a frequency table alone.  The while loop of              *)
(* build_huffman_tree runs one iteration per step.                         *)

\* the dataset of test_huffman_coding
ReferenceDataset == <<1, 2, 2, 3, 3, 3, 4, 4, 4, 4>>

HuffDatasets == SeqsUpTo(1..MaxSym, MaxHuffLen) \cup {ReferenceDataset}

\* the dict {1: counts[1], ..., m: counts[m]}
RECURSIVE TableOf(_, _)
TableOf(counts, m) ==
    IF m = 0
    THEN EmptyDict
    ELSE Append(TableOf(counts, m - 1), <<m, counts[m]>>)

\* the frequency tables {1: f1, ..., m: fm}
FrequencyTables ==
    UNION {{TableOf(counts, m) : counts \in [1..m -> 1..MaxFreq]}
           : m \in 1..MaxSym}

HuffInit ==
    /\ hpc = "idle"
    /\ hnumbers = <<>>
    /\ frequencies = <<>>
    /\ heap = <<>>
    /\ codebook = EmptyDict
    /\ hcompressed = <<>>
    /\ hdecompressed = <<>>
    /\ hbits = <<>>
    /\ hcount = 0

\* get_huffman_compression_info(numbers): frequencies = Counter(numbers),
\* then build_huffman_tree up to its loop
HuffInfoCall ==
    /\ hpc = "idle"
    /\ \E nums \in HuffDatasets :
          /\ hnumbers' = nums
          /\ frequencies' = Counter(nums)
          /\ heap' = leaf_heap(Counter(nums))
    /\ hpc' = "building"
    /\ UNCHANGED <<codebook, hcompressed, hdecompressed>>
    /\ UNCHANGED huffArgs
    /\ UNCHANGED <<fibVars, lzwVars, appVars, threads>>

\* build_huffman_tree(frequencies) on a frequency table, up to its loop
HuffTreeCall ==
    /\ hpc = "idle"
    /\ \E table \in FrequencyTables :
          /\ frequencies' = table
          /\ heap' = leaf_heap(table)
    /\ hpc' = "building"
    /\ UNCHANGED <<hnumbers, codebook, hcompressed, hdecompressed>>
    /\ UNCHANGED huffArgs
    /\ UNCHANGED <<fibVars, lzwVars, appVars, threads>>

\* one iteration of the while loop of build_huffman_tree
HuffMerge ==
    /\ hpc = "building"
    /\ Len(heap) > 1
    /\ heap' = merge_step(heap)
    /\ UNCHANGED <<hpc, hnumbers, frequencies, codebook, hcompressed,
                   hdecompressed>>
    /\ UNCHANGED huffArgs
    /\ UNCHANGED <<fibVars, lzwVars, appVars, threads>>

\* build_huffman_tree returns heap[0]; codebook = build_codebook(root)
HuffCodebook ==
    /\ hpc = "building"
    /\ Len(heap) = 1
    /\ codebook' = build_codebook(<<heap[1]>>)
    /\ hpc' = "built"
    /\ UNCHANGED <<hnumbers, frequencies, heap, hcompressed, hdecompressed>>
    /\ UNCHANGED huffArgs
    /\ UNCHANGED <<fibVars, lzwVars, appVars, threads>>

\* compressed = huffman_compress(numbers)
HuffCompressCall ==
    /\ hpc = "built"
    /\ hnumbers # <<>>
    /\ hcompressed' = huffman_compress(hnumbers)
    /\ hpc' = "compressed"
    /\ UNCHANGED <<hnumbers, frequencies, heap, codebook, hdecompressed>>
    /\ UNCHANGED huffArgs
    /\ UNCHANGED <<fibVars, lzwVars, appVars, threads>>

\* huffman_decompress(compressed, inverse of the codebook, len(numbers))
HuffDecompressCall ==
    /\ hpc = "compressed"
    /\ hdecompressed' = huffman_decompress(hcompressed,
                                           codebook_inverted(codebook),
                                           Len(hnumbers))
    /\ hpc' = "decompressed"
    /\ UNCHANGED <<hnumbers, frequencies, heap, codebook, hcompressed>>
    /\ UNCHANGED huffArgs
    /\ UNCHANGED <<fibVars, lzwVars, appVars, threads>>

\* the datasets whose codebook also decodes arbitrary bits: the short
\* ones (one symbol, one symbol twice, two symbols) and the reference
HuffDecoders == SeqsUpTo(1..MaxSym, 2) \cup {ReferenceDataset}

\* huffman_decompress(bits, inverse of the codebook, k) on any bit string
\* and any count, with the codebook the caller has built
HuffDecompressBitsCall ==
    /\ hpc = "built"
    /\ hnumbers \in HuffDecoders
    /\ \E bits \in BitStrings(MaxBits), k \in 0..MaxCount :
          /\ hbits' = bits
          /\ hcount' = k
          /\ hdecompressed' = huffman_decompress(bits,
                                                 codebook_inverted(codebook),
                                                 k)
    /\ hpc' = "decoded_bits"
    /\ UNCHANGED <<hnumbers, frequencies, heap, codebook, hcompressed>>
    /\ UNCHANGED <<fibVars, lzwVars, appVars, threads>>

HuffNext ==
    \/ HuffDecompressBitsCall
    \/ HuffInfoCall
    \/ HuffTreeCall
    \/ HuffMerge
    \/ HuffCodebook
    \/ HuffCompressCall
    \/ HuffDecompressCall

---------------------------------------------------------------------------
(* The LZW driver: the calls of test_lzw_coding, compressed =              *)
(* lzw_compress(s) then lzw_decompress(compressed), each for loop one      *)
(* iteration per step.                                                     *)

\* the characters of the inputs: "A", "B" and the two ends of the alphabet
InputChars == {0, 65, 66, 255}

\* "ABABABA", the string of test_lzw_coding, and a run of one symbol
\* the characters chr(lo) .. chr(hi) in order
RECURSIVE Bytes(_, _)
Bytes(lo, hi) ==
    IF lo = hi
    THEN <<lo>>
    ELSE Bytes(lo, (lo + hi) \div 2) \o Bytes((lo + hi) \div 2 + 1, hi)

\* a text of every character once and a few again: lzw_compress emits more
\* codes for it than 9 bits can number, the entry 512 among them
EveryByte == Bytes(0, AlphabetSize - 1) \o <<0, 2, 4, 6, 0, 2, 9>>

ReferenceStrings ==
    {<<65, 66, 65, 66, 65, 66, 65>>, <<65, 65, 65, 65, 65, 65>>}

LzwInputs == {<<>>} \cup SeqsUpTo(InputChars, MaxData) \cup ReferenceStrings

NoLocals == [dictionary |-> EmptyDict, next_code |-> 0, current |-> <<>>,
             result |-> <<>>]

NoPacker == [current_bits |-> 0, max_code |-> 0, binary_parts |-> <<>>]

LzwInit ==
    /\ lpc = "idle"
    /\ data = <<>>
    /\ cpos = 0
    /\ enc = NoLocals
    /\ emitted_with = <<>>
    /\ codes = <<>>
    /\ dpos = 0
    /\ dec = NoLocals
    /\ ldecompressed = None
    /\ received = <<>>
    /\ lnumbers = <<>>
    /\ lparsed = None
    /\ packer = NoPacker
    /\ packed = <<>>

\* lzw_compress(data) up to its loop; an empty input returns [] at once
LzwCompressCall ==
    /\ lpc = "idle"
    /\ \E s \in LzwInputs :
          /\ data' = s
          /\ IF s = <<>>
             THEN /\ lpc' = "compressed"
                  /\ UNCHANGED <<cpos, enc>>
             ELSE /\ lpc' = "compressing"
                  /\ cpos' = 1
                  /\ enc' = lzw_compress_init
    /\ UNCHANGED <<emitted_with, codes, dpos, dec, ldecompressed>>
    /\ UNCHANGED lzwArgs
    /\ UNCHANGED packVars
    /\ UNCHANGED <<fibVars, huffVars, appVars, threads>>

\* one iteration of the for loop of lzw_compress
LzwCompressStep ==
    /\ lpc = "compressing"
    /\ cpos <= Len(data)
    /\ enc' = lzw_compress_step(enc, data[cpos])
    /\ cpos' = cpos + 1
    /\ emitted_with' = IF Len(enc'.result) > Len(enc.result)
                       THEN Append(emitted_with, enc.dictionary)
                       ELSE emitted_with
    /\ UNCHANGED <<lpc, data, codes, dpos, dec, ldecompressed>>
    /\ UNCHANGED lzwArgs
    /\ UNCHANGED packVars
    /\ UNCHANGED <<fibVars, huffVars, appVars, threads>>

\* the end of lzw_compress: the last code, then return result
LzwCompressReturn ==
    /\ lpc = "compressing"
    /\ cpos > Len(data)
    /\ enc' = lzw_compress_flush(enc)
    /\ emitted_with' = IF Len(enc'.result) > Len(enc.result)
                       THEN Append(emitted_with, enc.dictionary)
                       ELSE emitted_with
    /\ codes' = enc'.result
    /\ lpc' = "compressed"
    /\ UNCHANGED <<data, cpos, dpos, dec, ldecompressed>>
    /\ UNCHANGED lzwArgs
    /\ UNCHANGED packVars
    /\ UNCHANGED <<fibVars, huffVars, appVars, threads>>

\* lzw_decompress(codes) up to its loop; no codes return "" at once
LzwDecompressCall ==
    /\ lpc = "compressed"
    /\ IF codes = <<>>
       THEN /\ lpc' = "decompressed"
            /\ ldecompressed' = Return(<<>>)
            /\ UNCHANGED <<dpos, dec>>
       ELSE LET d == lzw_decompress_init(codes)
            IN  /\ dec' = d
                /\ dpos' = 2
                /\ IF d.ok
                   THEN /\ lpc' = "decompressing"
                        /\ UNCHANGED ldecompressed
                   ELSE /\ lpc' = "decompressed"
                        /\ ldecompressed' = Raise(d.result)
    /\ UNCHANGED <<data, cpos, enc, emitted_with, codes>>
    /\ UNCHANGED lzwArgs
    /\ UNCHANGED packVars
    /\ UNCHANGED <<fibVars, huffVars, appVars, threads>>

\* one iteration of the for loop of lzw_decompress
LzwDecompressStep ==
    /\ lpc = "decompressing"
    /\ dpos <= Len(codes)
    /\ LET d == lzw_decompress_step(dec, codes[dpos])
       IN  /\ dec' = d
           /\ dpos' = dpos + 1
           /\ IF d.ok
              THEN UNCHANGED <<lpc, ldecompressed>>
              ELSE /\ lpc' = "decompressed"
                   /\ ldecompressed' = Raise(d.result)
    /\ UNCHANGED <<data, cpos, enc, emitted_with, codes>>
    /\ UNCHANGED lzwArgs
    /\ UNCHANGED packVars
    /\ UNCHANGED <<fibVars, huffVars, appVars, threads>>

\* the end of lzw_decompress: return ''.join(result)
LzwDecompressReturn ==
    /\ lpc = "decompressing"
    /\ dpos > Len(codes)
    /\ ldecompressed' = Return(dec.result)
    /\ lpc' = "decompressed"
    /\ UNCHANGED <<data, cpos, enc, emitted_with, codes, dpos, dec>>
    /\ UNCHANGED lzwArgs
    /\ UNCHANGED packVars
    /\ UNCHANGED <<fibVars, huffVars, appVars, threads>>

\* the codes of arbitrary lists: characters, the first codes the decoder
\* assigns, and codes it never holds
ArbitraryCodes == {-1, 65, 66, 255, 256, 257, 258, 300}

\* the dataset of test_lzw_coding (test_algorithms.py)
ReferenceNumbers == <<1, 2, 3, 4, 5, 10, 20, 50, 100>>

NumberLists == SeqsUpTo(1..MaxNumber, MaxNumbers) \cup {ReferenceNumbers}

\* the characters of arbitrary texts: "," "1" "-" " " "_" "A"
TextChars == {Comma, Zero + 1, Minus, 32, Underscore, 65}

\* lzw_decompress(cs) on any list of codes
LzwDecompressCodesCall ==
    /\ lpc = "idle"
    /\ \E cs \in SeqsUpTo(ArbitraryCodes, MaxCodes) :
          /\ received' = cs
          /\ ldecompressed' = lzw_decompress(cs)
    /\ lpc' = "decoded_codes"
    /\ UNCHANGED <<data, cpos, enc, emitted_with, codes, dpos, dec>>
    /\ UNCHANGED <<lnumbers, lparsed>>
    /\ UNCHANGED packVars
    /\ UNCHANGED <<fibVars, huffVars, appVars, threads>>

\* compressed = lzw_compress_numbers(dataset)
LzwCompressNumbersCall ==
    /\ lpc = "idle"
    /\ \E xs \in NumberLists :
          /\ lnumbers' = xs
          /\ received' = lzw_compress_numbers(xs)
    /\ lpc' = "numbers_compressed"
    /\ UNCHANGED <<data, cpos, enc, emitted_with, codes, dpos, dec,
                   ldecompressed>>
    /\ UNCHANGED lparsed
    /\ UNCHANGED packVars
    /\ UNCHANGED <<fibVars, huffVars, appVars, threads>>

\* decompressed = lzw_decompress_numbers(compressed)
LzwDecompressNumbersCall ==
    /\ lpc = "numbers_compressed"
    /\ lparsed' = lzw_decompress_numbers(received)
    /\ lpc' = "numbers_decompressed"
    /\ UNCHANGED <<data, cpos, enc, emitted_with, codes, dpos, dec,
                   ldecompressed>>
    /\ UNCHANGED <<received, lnumbers>>
    /\ UNCHANGED packVars
    /\ UNCHANGED <<fibVars, huffVars, appVars, threads>>

\* lzw_decompress_numbers(cs) on the codes of any text: each character is
\* its own code, so lzw_decompress(cs) is that text
LzwParseTextCall ==
    /\ lpc = "idle"
    /\ \E cs \in SeqsUpTo(TextChars, MaxText) :
          /\ received' = cs
          /\ ldecompressed' = lzw_decompress(cs)
          /\ lparsed' = lzw_decompress_numbers(cs)
    /\ lpc' = "text_parsed"
    /\ UNCHANGED <<data, cpos, enc, emitted_with, codes, dpos, dec>>
    /\ UNCHANGED lnumbers
    /\ UNCHANGED packVars
    /\ UNCHANGED <<fibVars, huffVars, appVars, threads>>

\* convert_lzw_to_binary(lzw_compress(s)) on a string s
LzwConvertCall ==
    /\ lpc = "idle"
    /\ \E s \in LzwInputs \cup {EveryByte} :
          /\ data' = s
          /\ codes' = lzw_compress(s)
          /\ packer' = convert_lzw_to_binary_loop(
                           convert_lzw_to_binary_init, lzw_compress(s), 1,
                           Len(lzw_compress(s)))
          /\ packed' = convert_lzw_to_binary(lzw_compress(s))
    /\ lpc' = "packed"
    /\ UNCHANGED <<cpos, enc, emitted_with, dpos, dec, ldecompressed>>
    /\ UNCHANGED lzwArgs
    /\ UNCHANGED <<fibVars, huffVars, appVars, threads>>

LzwNext ==
    \/ LzwConvertCall
    \/ LzwDecompressCodesCall
    \/ LzwCompressNumbersCall
    \/ LzwDecompressNumbersCall
    \/ LzwParseTextCall
    \/ LzwCompressCall
    \/ LzwCompressStep
    \/ LzwCompressReturn
    \/ LzwDecompressCall
    \/ LzwDecompressStep
    \/ LzwDecompressReturn

---------------------------------------------------------------------------
(* The driver of app.py: perform_compression on a list of numbers, and    *)
(* its comparative analysis on three sizes                                 *)

\* the elements of the lists given to perform_compression: ints from 0 on
\* and the float 1.5
AppNumbers == {PyInt(k) : k \in 0..MaxAppNumber} \cup {PyFloat(3)}

AppDatasets == {<<>>} \cup SeqsUpTo(AppNumbers, MaxAppLen)

AppInit ==
    /\ apc = "idle"
    /\ anumbers = <<>>
    /\ araising = {}
    /\ sizes = <<0, 0, 0>>
    /\ comparison = None

\* perform_compression(numbers)
PerformCompressionCall ==
    /\ apc = "idle"
    /\ \E nums \in AppDatasets, raising \in SUBSET {"Huffman", "LZW"} :
          /\ anumbers' = nums
          /\ araising' = raising
          /\ comparison' = perform_compression(nums, raising)
    /\ apc' = "compared"
    /\ UNCHANGED sizes
    /\ UNCHANGED <<fibVars, huffVars, lzwVars, threads>>

\* the comparative analysis of perform_compression on any three sizes
ComparativeAnalysisCall ==
    /\ apc = "idle"
    /\ \E fib_bytes \in 0..MaxSize, huffman_bytes \in 0..MaxSize,
          lzw_bytes \in 0..MaxSize :
          /\ sizes' = <<fib_bytes, huffman_bytes, lzw_bytes>>
          /\ comparison' = Return(Comparative(32, fib_bytes, huffman_bytes,
                                              lzw_bytes))
    /\ apc' = "analysed"
    /\ UNCHANGED <<anumbers, araising>>
    /\ UNCHANGED <<fibVars, huffVars, lzwVars, threads>>

AppNext ==
    \/ PerformCompressionCall
    \/ ComparativeAnalysisCall

---------------------------------------------------------------------------
(* Calls of the codecs from two threads.  A thread is between calls        *)
(* ("idle"), inside a call ("running") with the locals of that call, or    *)
(* has its outcome ("returned").  A step of a thread is one iteration of   *)
(* the loop of its call; the steps of the threads interleave in any order. *)

ThreadIds == {1, 2}

IdleThread ==
    [pc |-> "idle", fn |-> "none", args |-> <<>>, locals |-> <<>>,
     outcome |-> None]

\* the thread a call has returned to
Returned(fn, args, outcome) ==
    [pc |-> "returned", fn |-> fn, args |-> args, locals |-> <<>>,
     outcome |-> outcome]

\* the thread inside a call
Running(fn, args, locals) ==
    [pc |-> "running", fn |-> fn, args |-> args, locals |-> locals,
     outcome |-> None]

\* a call up to its loop: the early return on an empty argument, or the
\* locals the loop starts from
call_begin(fn, args) ==
    CASE fn = "lzw_compress" ->
             IF args[1] = <<>>
             THEN Returned(fn, args, Return(<<>>))
             ELSE Running(fn, args, [e |-> lzw_compress_init, i |-> 1])
      [] fn = "build_huffman_tree" ->
             IF args[1] = EmptyDict
             THEN Returned(fn, args, Return(NoNode))
             ELSE Running(fn, args, [heap |-> leaf_heap(args[1])])
      [] fn = "decompress_dataset" ->
             IF args[1] = <<>>
             THEN Returned(fn, args, Return(<<>>))
             ELSE Running(fn, args, [i |-> 1, numbers |-> <<>>])

\* one iteration of the for loop of lzw_compress, or its end
lzw_compress_next(args, locals) ==
    IF locals.i <= Len(args[1])
    THEN Running("lzw_compress", args,
                 [e |-> lzw_compress_step(locals.e, args[1][locals.i]),
                  i |-> locals.i + 1])
    ELSE Returned("lzw_compress", args,
                  Return(lzw_compress_flush(locals.e).result))

\* one iteration of the while loop of build_huffman_tree, or its end
build_huffman_tree_next(args, locals) ==
    IF Len(locals.heap) > 1
    THEN Running("build_huffman_tree", args,
                 [heap |-> merge_step(locals.heap)])
    ELSE Returned("build_huffman_tree", args, Return(<<locals.heap[1]>>))

\* one iteration of the outer while loop of decompress_dataset, or its end
decompress_dataset_next(args, locals) ==
    IF locals.i > Len(args[1])
    THEN Returned("decompress_dataset", args,
                  IF Len(locals.numbers) # args[2]
                  THEN Raise("count mismatch")
                  ELSE Return(locals.numbers))
    ELSE LET j == find_terminator(args[1], locals.i + 1)
         IN  IF j = 0
             THEN Returned("decompress_dataset", args,
                      Raise("Invalid compressed data: no terminator found"))
             ELSE LET number == fib_decode(SubSeq(args[1], locals.i, j))
                  IN  IF ~number.ok
                      THEN Returned("decompress_dataset", args, number)
                      ELSE Running("decompress_dataset", args,
                               [i |-> j + 1,
                                numbers |-> Append(locals.numbers,
                                                   number.val)])

\* the next step of a call with the given locals
call_step(fn, args, locals) ==
    CASE fn = "lzw_compress" -> lzw_compress_next(args, locals)
      [] fn = "build_huffman_tree" -> build_huffman_tree_next(args, locals)
      [] fn = "decompress_dataset" -> decompress_dataset_next(args, locals)

\* locals kept in one place per function, as module globals are: a call
\* of a later thread works on those of the first thread when both run the
\* same function
module_locals(ts, t) ==
    IF t # 1 /\ ts[1].pc = "running" /\ ts[1].fn = ts[t].fn
    THEN ts[1].locals
    ELSE ts[t].locals

\* the dictionary, the heap and the bit buffers a step works on: those its
\* own call made
own_locals(ts, t) == ts[t].locals

\* the calls a thread makes
ThreadCalls ==
    {<<"lzw_compress", <<s>>>> : s \in SeqsUpTo({65, 66}, MaxConcLen)}
    \cup {<<"build_huffman_tree", <<TableOf(counts, m)>>>> :
              counts \in [1..MaxConcLen -> 1..2], m \in 1..MaxConcLen}
    \cup {<<"decompress_dataset", <<s, 2>>>> :
              s \in SeqsUpTo({"0", "1"}, MaxConcLen + 1)}

ThreadsInit == threads = <<IdleThread, IdleThread>>

\* a thread calls a codec
ThreadCall ==
    /\ \E t \in ThreadIds :
          /\ threads[t].pc = "idle"
          /\ \E call \in ThreadCalls :
                threads' = [threads EXCEPT
                                ![t] = call_begin(call[1], call[2])]
    /\ UNCHANGED <<fibVars, huffVars, lzwVars, appVars>>

\* a thread takes the next step of its call
ThreadStep ==
    /\ \E t \in ThreadIds :
          /\ threads[t].pc = "running"
          /\ threads' = [threads EXCEPT
                             ![t] = call_step(threads[t].fn, threads[t].args,
                                              own_locals(threads, t))]
    /\ UNCHANGED <<fibVars, huffVars, lzwVars, appVars>>

ThreadsNext ==
    \/ ThreadCall
    \/ ThreadStep

---------------------------------------------------------------------------
(* Specifications: one per codec, the other codecs idle *)

Init == FibInit /\ HuffInit /\ LzwInit /\ AppInit /\ ThreadsInit

SpecApp == Init /\ [][AppNext]_vars

SpecThreads == Init /\ [][ThreadsNext]_vars

SpecFib == Init /\ [][FibNext]_vars

SpecHuffman == Init /\ [][HuffNext]_vars

SpecLZW == Init /\ [][LzwNext]_vars

---------------------------------------------------------------------------
(* Properties of the Fibonacci codec *)

\* "11" occurs in the bit string c at positions i, i + 1
Bigram11At(c, i) == c[i] = "1" /\ c[i + 1] = "1"

\* The codewords of test_fibonacci_coding (test_algorithms.py 38-45)
ReferenceCodewords ==
    (1 :> <<"1", "1">>) @@
    (2 :> <<"0", "1", "1">>) @@
    (3 :> <<"0", "0", "1", "1">>) @@
    (4 :> <<"1", "0", "1", "1">>) @@
    (5 :> <<"0", "0", "0", "1", "1">>) @@
    (10 :> <<"0", "1", "0", "0", "1", "1">>)

\* fib_encode(x1) followed by ... fib_encode(xk), computed front to back
RECURSIVE CodewordsInOrder(_)
CodewordsInOrder(xs) ==
    IF xs = <<>>
    THEN <<>>
    ELSE fib_encode(Head(xs)).val \o CodewordsInOrder(Tail(xs))

\* C1: for every positive integer n, fib_decode(fib_encode(n)) returns n.
C1_DecodeEncode ==
    fpc = "decoded" => result.ok /\ result.val = n

C1_Witness ==
    fpc = "decoded" /\ n = 33 /\ result.ok /\ result.val = 33

\* C2: for every positive integer n the codeword fib_encode(n) ends with
\* "11" and holds the bigram "11" at no other position: the bits before
\* the terminator never hold two adjacent 1s and the last of them is 1.
C2_TerminatorOnlyAtEnd ==
    fpc \in {"encoded", "decoded"} =>
        /\ code.ok
        /\ Len(code.val) >= 2
        /\ Bigram11At(code.val, Len(code.val) - 1)
        /\ \A i \in 1..(Len(code.val) - 2) : ~Bigram11At(code.val, i)

C2_Witness ==
    /\ fpc = "encoded"
    /\ n = 12
    /\ code.ok
    /\ code.val = <<"1", "0", "1", "0", "1", "1">>

\* C3: for every non-empty sequence xs of positive integers,
\* decompress_dataset(compress_dataset(xs), len(xs)) returns xs, in the same
\* order and with the same duplicates.
C3_DecompressCompress ==
    fpc = "decompressed" => decompressed.ok /\ decompressed.val = numbers

C3_Witness ==
    /\ fpc = "decompressed"
    /\ numbers = <<4, 1, 4>>
    /\ decompressed.ok
    /\ decompressed.val = <<4, 1, 4>>

\* C8: fib_encode returns the reference codewords, least-significant
\* Fibonacci position first: 1 -> 11, 2 -> 011, 3 -> 0011, 4 -> 1011,
\* 5 -> 00011, 10 -> 010011.
C8_ReferenceCodewords ==
    (fpc = "encoded" /\ n \in DOMAIN ReferenceCodewords) =>
        code.ok /\ code.val = ReferenceCodewords[n]

C8_Witness ==
    /\ fpc = "encoded"
    /\ n = 10
    /\ code.ok
    /\ code.val = <<"0", "1", "0", "0", "1", "1">>

\* C9: compress_dataset returns exactly fib_encode(x1) followed by ...
\* fib_encode(xk), in input order, with no separator or padding bits;
\* compress_dataset([1,2,3]) is 110110011 and
\* decompress_dataset(110110011, 3) is [1,2,3].
C9_Concatenation ==
    /\ fpc \in {"compressed", "decompressed"} =>
          compressed.ok /\ compressed.val = CodewordsInOrder(numbers)
    /\ (fpc \in {"compressed", "decompressed"} /\ numbers = <<1, 2, 3>>) =>
          compressed.val = <<"1", "1", "0", "1", "1", "0", "0", "1", "1">>
    /\ (fpc = "decompressed"
        /\ compressed.val = <<"1", "1", "0", "1", "1", "0", "0", "1", "1">>) =>
          decompressed.ok /\ decompressed.val = <<1, 2, 3>>

C9_Witness ==
    /\ fpc = "decompressed"
    /\ numbers = <<1, 2, 3>>
    /\ compressed.val = <<"1", "1", "0", "1", "1", "0", "0", "1", "1">>
    /\ decompressed.ok
    /\ decompressed.val = <<1, 2, 3>>

\* the Python number v is not a positive integer: it is zero or negative,
\* or a float with a fractional part
NotPositiveInteger(v) == v.val <= 0 \/ (v.type = "float" /\ v.val % 2 = 1)

\* C11: fib_encode(n) fails with ValueError, returning no codeword, for
\* every n that is not a positive integer (n <= 0 or a non-integer value),
\* and compress_dataset(numbers) fails with ValueError, returning nothing,
\* when any element of numbers is not a positive integer, wherever it is.
C11_InvalidInput ==
    /\ (fpc = "encoded_number" /\ NotPositiveInteger(pynumber)) =>
          ~code.ok /\ code.val = "Only positive integers can be encoded"
    /\ (fpc = "compressed_numbers"
        /\ \E i \in 1..Len(dataset) : NotPositiveInteger(dataset[i])) =>
          ~compressed.ok /\ compressed.val = "Invalid number in dataset"

\* the bit string c has at least 2 bits and ends with "11"
EndsWith11(c) == Len(c) >= 2 /\ Bigram11At(c, Len(c) - 1)

\* C12: fib_decode(code) fails with ValueError (invalid code) for every bit
\* string shorter than 2 bits or not ending with "11", and returns a value
\* for every bit string of at least 2 bits that ends with "11".
C12_InvalidCode ==
    fpc = "decoded_codeword" =>
        IF EndsWith11(codeword)
        THEN result.ok /\ result.val \in Nat
        ELSE /\ ~result.ok
             /\ result.val \in {"Invalid Fibonacci code: too short",
                                "Invalid Fibonacci code: must end with '11'"}

C12_Witness ==
    /\ fpc = "decoded_codeword"
    /\ codeword = <<"0", "1", "1", "0">>
    /\ ~result.ok
    /\ result.val = "Invalid Fibonacci code: must end with '11'"

\* the 1-based index of the second bit of the first "11" lying within
\* s[i..], 0 when s[i..] holds none
FirstTerminator(s, i) ==
    LET ends == {j \in (i + 1)..Len(s) : Bigram11At(s, j - 1)}
    IN  IF ends = {} THEN 0 ELSE CHOOSE j \in ends : \A k \in ends : j <= k

\* s[i..] cut into codewords, each ending with its first "11": the number
\* of complete codewords (added to k) and the start of the bits after them
RECURSIVE Framing(_, _, _)
Framing(s, i, k) ==
    IF i > Len(s) \/ FirstTerminator(s, i) = 0
    THEN [codewords |-> k, rest |-> i]
    ELSE Framing(s, FirstTerminator(s, i) + 1, k + 1)

\* the number of complete codewords of the stream s
Codewords(s) == Framing(s, 1, 0).codewords

\* the stream s is made of complete codewords only: no bits are left
WellFramed(s) == Framing(s, 1, 0).rest > Len(s)

\* C13: for every bit stream and every expected count, decompress_dataset
\* returns a list of exactly expected_count integers or fails; when the
\* number of codewords decoded differs from expected_count, also for the
\* empty stream with expected_count > 0, it fails with the count mismatch.
C13_ExactCountOrFail ==
    fpc = "decompressed_stream" =>
        /\ decompressed.ok => Len(decompressed.val) = expected_count
        /\ (WellFramed(stream) /\ Codewords(stream) # expected_count) =>
              ~decompressed.ok /\ decompressed.val = "count mismatch"

\* C14: when fewer than expected_count codewords precede bits that hold no
\* "11" (a trailing 0, a lone 1, any unterminated tail), decompress_dataset
\* fails with "no terminator found" and returns none of the values decoded
\* before that point.
C14_StreamCorrupt ==
    (/\ fpc = "decompressed_stream"
     /\ ~WellFramed(stream)
     /\ Codewords(stream) < expected_count) =>
        /\ ~decompressed.ok
        /\ decompressed.val = "Invalid compressed data: no terminator found"

C14_Witness ==
    /\ fpc = "decompressed_stream"
    /\ stream = <<"1", "1", "0", "1", "1", "0", "1">>
    /\ expected_count = 3
    /\ ~decompressed.ok
    /\ decompressed.val = "Invalid compressed data: no terminator found"

\* the stream holds more complete codewords than expected, and only those
MoreThanExpected ==
    /\ fpc = "decompressed_stream"
    /\ WellFramed(stream)
    /\ Codewords(stream) > expected_count

\* C15 as stated: decompress_dataset stops scanning once expected_count
\* codewords are produced; for a stream of more than expected_count
\* well-formed codewords it returns the first expected_count values.
C15_StopsAtExpectedCount ==
    MoreThanExpected =>
        /\ decompressed.ok
        /\ Len(decompressed.val) = expected_count
        /\ LET taken == CodewordsInOrder(decompressed.val)
           IN  SubSeq(stream, 1, Len(taken)) = taken

\* C15, amended: decompress_dataset scans the whole stream whatever the
\* expected count; for a stream of more than expected_count well-formed
\* codewords it fails with the count mismatch and returns nothing, and
\* unterminated bits after the expected_count-th codeword still make it
\* fail with "no terminator found".
C15_ScansWholeStream ==
    /\ MoreThanExpected =>
          ~decompressed.ok /\ decompressed.val = "count mismatch"
    /\ (/\ fpc = "decompressed_stream"
        /\ ~WellFramed(stream)
        /\ Codewords(stream) >= expected_count) =>
          /\ ~decompressed.ok
          /\ decompressed.val = "Invalid compressed data: no terminator found"

C15_Witness ==
    /\ fpc = "decompressed_stream"
    /\ stream = <<"1", "1", "0", "1", "1">>
    /\ expected_count = 1
    /\ ~decompressed.ok
    /\ decompressed.val = "count mismatch"

---------------------------------------------------------------------------
(* Properties of the Huffman codec *)

\* the bit string a is a prefix of (or equal to) the bit string b
IsPrefix(a, b) == Len(a) <= Len(b) /\ SubSeq(b, 1, Len(a)) = a

\* the caller holds a codebook
HuffBuilt == hpc \in {"built", "compressed", "decompressed"}

\* C4: for every non-empty frequency table, the codebook that
\* build_codebook derives from build_huffman_tree(frequencies) is
\* prefix-free: no symbol's code is a prefix of, or equal to, another's.
C4_PrefixFree ==
    HuffBuilt =>
        \A a, b \in DictKeys(codebook) :
            a # b => ~IsPrefix(DictGet(codebook, a), DictGet(codebook, b))

C4_Witness ==
    /\ hpc = "built"
    /\ frequencies = <<<<1, 2>>, <<2, 1>>, <<3, 1>>, <<4, 3>>>>
    /\ DictKeys(codebook) = {1, 2, 3, 4}

\* C7: for every non-empty sequence xs of positive integers, also one
\* with a single distinct symbol, huffman_decompress(huffman_compress(xs),
\* inverse of the codebook built from xs's frequencies, len(xs)) is xs.
C7_DecompressCompress ==
    hpc = "decompressed" => hdecompressed = hnumbers

C7_Witness ==
    /\ hpc = "decompressed"
    /\ hnumbers = <<2, 2, 2>>
    /\ hcompressed = <<"0", "0", "0">>
    /\ hdecompressed = <<2, 2, 2>>

\* C10: in the Huffman codebook a symbol with strictly higher frequency
\* never gets a longer code than a symbol with lower frequency; for
\* [1,2,2,3,3,3,4,4,4,4] symbol 4 has the shortest code and symbol 1's code
\* is no shorter than symbol 4's.
C10_FrequentIsShort ==
    HuffBuilt =>
        /\ DictKeys(codebook) = DictKeys(frequencies)
        /\ \A a, b \in DictKeys(codebook) :
              DictGet(frequencies, a) > DictGet(frequencies, b) =>
                  Len(DictGet(codebook, a)) <= Len(DictGet(codebook, b))
        /\ hnumbers = ReferenceDataset =>
              /\ \A a \in DictKeys(codebook) \ {4} :
                    Len(DictGet(codebook, 4)) < Len(DictGet(codebook, a))
              /\ Len(DictGet(codebook, 1)) >= Len(DictGet(codebook, 4))

C10_Witness ==
    /\ hpc = "built"
    /\ hnumbers = ReferenceDataset
    /\ Len(DictGet(codebook, 4)) = 1
    /\ Len(DictGet(codebook, 1)) = 3

\* C16: huffman_decompress fails whenever the bits run out before
\* expected_count symbols are emitted (unmatched bits left in the buffer,
\* an empty or too short input).  The call has no failing outcome (lines
\* 181-197 hold no raise), so this says: it never returns a list shorter
\* than expected_count.
C16_AmbiguousStream ==
    hpc = "decoded_bits" => Len(hdecompressed) >= hcount

\* C17: huffman_decompress stops after expected_count symbols: for every
\* expected_count >= 0 and every bit string the returned list never holds
\* more than expected_count symbols, and the bits it consumed are the codes
\* of the returned symbols, a prefix of the input.
C17_StopsAtExpectedCount ==
    hpc = "decoded_bits" =>
        /\ Len(hdecompressed) <= hcount
        /\ IsPrefix(join_codes(codebook, hdecompressed, 1), hbits)

\* the values of the leaves of the tree under node, left to right
RECURSIVE Leaves(_)
Leaves(node) ==
    IF is_leaf(node)
    THEN node.value
    ELSE Leaves(node.left[1]) \o Leaves(node.right[1])

\* the number of internal nodes of the tree under node: the merges that
\* built it
RECURSIVE Merges(_)
Merges(node) ==
    IF is_leaf(node)
    THEN 0
    ELSE 1 + Merges(node.left[1]) + Merges(node.right[1])

\* the merges that built the nodes hp[1..upto]
RECURSIVE MergesDone(_, _)
MergesDone(hp, upto) ==
    IF upto = 0 THEN 0 ELSE MergesDone(hp, upto - 1) + Merges(hp[upto])

\* the sum of the frequencies of the items freqs[1..upto]
RECURSIVE TotalFrequency(_, _)
TotalFrequency(freqs, upto) ==
    IF upto = 0 THEN 0 ELSE TotalFrequency(freqs, upto - 1) + freqs[upto][2]

\* the loop of build_huffman_tree is running or has just ended
Building == hpc = "building"

\* the queue after a merge: the nodes at i and j of hp, two of the lowest
\* frequencies of hp, have left it for one parent over them
MergedTwoSmallest(hp, after) ==
    \E i, j \in 1..Len(hp) :
        /\ i # j
        /\ hp[i].freq <= hp[j].freq
        /\ \A k \in 1..Len(hp) : k \notin {i, j} =>
               /\ hp[j].freq <= hp[k].freq
               /\ \E at \in 1..Len(after) : after[at] = hp[k]
        /\ Len(after) = Len(hp) - 1
        /\ \E at \in 1..Len(after) :
               after[at] = HuffmanNode(hp[i].freq + hp[j].freq, NoNode,
                                       <<hp[i]>>, <<hp[j]>>)

\* C28: for every non-empty frequency table with d distinct symbols,
\* build_huffman_tree ends after exactly d - 1 merges, each merge takes
\* two nodes of the two smallest frequencies out of the queue, and the
\* single root left has the sum of all frequencies and the d symbols as
\* its leaves, each once.
C28_Merges ==
    /\ [](Building =>
            /\ Len(heap) >= 1
            /\ MergesDone(heap, Len(heap)) + Len(heap) = Len(frequencies)
            /\ Len(heap) = 1 =>
                  /\ Merges(heap[1]) = Len(frequencies) - 1
                  /\ heap[1].freq =
                         TotalFrequency(frequencies, Len(frequencies))
                  /\ Len(Leaves(heap[1])) = Len(frequencies)
                  /\ {Leaves(heap[1])[at] : at \in 1..Len(frequencies)} =
                         DictKeys(frequencies))
    /\ [][(Building /\ Len(heap) > 1) => MergedTwoSmallest(heap, heap')]_vars

C28_Witness ==
    /\ Building
    /\ frequencies = <<<<1, 2>>, <<2, 1>>, <<3, 1>>, <<4, 3>>>>
    /\ Len(heap) = 1
    /\ Merges(heap[1]) = 3
    /\ heap[1].freq = 7

---------------------------------------------------------------------------
(* Properties of the LZW codec *)

\* the items of a dict, as a set
DictItems(d) == {d[at] : at \in 1..Len(d)}

\* the number of codes lzw_decompress has consumed
Consumed == IF lpc = "decompressed" THEN Len(codes) ELSE dpos - 1

\* the decoder is running, or has returned, on a non-empty code list
Decoding == lpc \in {"decompressing", "decompressed"} /\ codes # <<>> /\ dec.ok

\* C5: for every string s over the byte alphabet,
\* lzw_decompress(lzw_compress(s)) returns s, also when the encoder emits
\* a code the decoder has not inserted yet (code == next_code), as for
\* "ABABABA" or a run of one repeated symbol.
C5_DecompressCompress ==
    lpc = "decompressed" => ldecompressed.ok /\ ldecompressed.val = data

C5_Witness ==
    /\ lpc = "decompressed"
    /\ data = <<65, 66, 65, 66, 65, 66, 65>>
    /\ codes = <<65, 66, 256, 258>>
    /\ ldecompressed.ok
    /\ ldecompressed.val = <<65, 66, 65, 66, 65, 66, 65>>

\* C6: after the decoder has consumed its j-th code, every entry
\* code -> pattern of its dictionary is the inverse of an entry
\* pattern -> code the encoder's dictionary held when it emitted its j-th
\* code; the decoder lags by at most one entry and no code is bound to two
\* patterns.
C6_DictionariesAgree ==
    Decoding =>
        LET held == emitted_with[Consumed]
        IN  /\ \A at \in 1..Len(dec.dictionary) :
                  <<dec.dictionary[at][2], dec.dictionary[at][1]>>
                      \in DictItems(held)
            /\ Len(held) - Len(dec.dictionary) \in {0, 1}
            /\ Cardinality({held[at][2] : at \in 1..Len(held)}) = Len(held)
            /\ Cardinality(DictKeys(dec.dictionary)) = Len(dec.dictionary)

C6_Witness ==
    /\ lpc = "decompressing"
    /\ data = <<65, 66, 65, 66, 65, 66, 65>>
    /\ dpos = 5
    /\ Len(dec.dictionary) = AlphabetSize + 3
    /\ DictGet(dec.dictionary, 258) = <<65, 66, 65>>
    /\ DictGet(emitted_with[4], <<65, 66, 65>>) = 258

\* the number of entries the decoder has added when it consumes its j-th
\* code: one per code consumed after the first
AddedBefore(j) == IF j > 2 THEN j - 2 ELSE 0

\* the keys of the decoder's dictionary when it consumes its j-th code
KnownCodes(j) == 0..(AlphabetSize - 1 + AddedBefore(j))

\* the decoder's next_code when it consumes its j-th code
NextCodeAt(j) == AlphabetSize + AddedBefore(j)

\* the j-th code of cs is neither known nor the next code
UnknownAt(cs, j) == cs[j] \notin KnownCodes(j) /\ cs[j] # NextCodeAt(j)

\* the text lzw_decompress returns for the first k codes of cs
DecodedUpTo(cs, k) ==
    IF k = 0 THEN <<>> ELSE lzw_decompress(SubSeq(cs, 1, k)).val

\* the entry decoded for the j-th code of cs
EntryAt(cs, j) ==
    SubSeq(DecodedUpTo(cs, j), Len(DecodedUpTo(cs, j - 1)) + 1,
           Len(DecodedUpTo(cs, j)))

\* C18: for every list of codes, if any code, the first included, is
\* neither a key of the decoder's dictionary when it is consumed nor the
\* next code, lzw_decompress fails with the ValueError "Invalid LZW code"
\* and returns nothing; a code equal to next_code is decoded as
\* previous + previous[0].
C18_UnknownCode ==
    lpc = "decoded_codes" =>
        /\ (\E j \in 1..Len(received) : UnknownAt(received, j)) =>
              /\ ~ldecompressed.ok
              /\ ldecompressed.val = "Invalid LZW code"
        /\ \A j \in 2..Len(received) :
              (/\ received[1] \in KnownCodes(1)
               /\ \A i \in 2..j : ~UnknownAt(received, i)
               /\ received[j] = NextCodeAt(j)) =>
                  LET previous == EntryAt(received, j - 1)
                  IN  EntryAt(received, j) = Append(previous, previous[1])

\* C19: for every non-empty list xs of positive integers,
\* lzw_decompress_numbers(lzw_compress_numbers(xs)) returns xs: the comma
\* collides with no digit, so boundaries, order and duplicates are kept.
C19_NumbersRoundTrip ==
    lpc = "numbers_decompressed" => lparsed.ok /\ lparsed.val = lnumbers

C19_Witness ==
    /\ lpc = "numbers_decompressed"
    /\ lnumbers = <<11, 11>>
    /\ received = <<49, 49, 44, 256>>
    /\ lparsed.ok
    /\ lparsed.val = <<11, 11>>

\* the text t holds an empty token: a leading, a trailing or a doubled
\* delimiter
EmptyToken(t) ==
    \/ t[1] = Comma
    \/ t[Len(t)] = Comma
    \/ \E i \in 1..(Len(t) - 1) : t[i] = Comma /\ t[i + 1] = Comma

\* C20 as stated: lzw_decompress_numbers fails with "Failed to parse" and
\* returns no list whenever a token of the decompressed text is not a
\* digit string: an empty token, or a token with a non-digit character.
C20_ParseError ==
    (/\ lpc = "text_parsed"
     /\ \/ EmptyToken(ldecompressed.val)
        \/ \E i \in 1..Len(ldecompressed.val) :
              ldecompressed.val[i] \notin Digits \cup {Comma}) =>
        /\ ~lparsed.ok
        /\ lparsed.val = "Failed to parse decompressed data as numbers"

\* the characters int() takes in some position of a literal
IntLiteralChars == Digits \cup {Plus, Minus, Underscore} \cup Whitespace

\* C20, amended: lzw_decompress_numbers fails with "Failed to parse" and
\* returns no list whenever a token of the decompressed text is empty or
\* holds a character that is not a digit, a sign, an underscore or
\* whitespace; a token int() accepts is parsed: "-1" gives [-1], " 1"
\* gives [1] and "1_1" gives [11].
C20_ParseErrorOutsideIntLiterals ==
    /\ (/\ lpc = "text_parsed"
        /\ \/ EmptyToken(ldecompressed.val)
           \/ \E i \in 1..Len(ldecompressed.val) :
                 ldecompressed.val[i] \notin IntLiteralChars \cup {Comma}) =>
          /\ ~lparsed.ok
          /\ lparsed.val = "Failed to parse decompressed data as numbers"
    /\ (lpc = "text_parsed" /\ received = <<Minus, Zero + 1>>) =>
          lparsed = Return(<<-1>>)
    /\ (lpc = "text_parsed" /\ received = <<32, Zero + 1>>) =>
          lparsed = Return(<<1>>)
    /\ (lpc = "text_parsed"
        /\ received = <<Zero + 1, Underscore, Zero + 1>>) =>
          lparsed = Return(<<11>>)

C20_Witness ==
    /\ lpc = "text_parsed"
    /\ received = <<49, 44, 44, 49>>
    /\ ldecompressed.val = <<49, 44, 44, 49>>
    /\ ~lparsed.ok
    /\ lparsed.val = "Failed to parse decompressed data as numbers"

\* C25: lzw_compress("ABABABA") returns the code list of the docstring
\* example, [65, 66, 256, 258, 65].
C25_DocstringExample ==
    (lpc = "compressed" /\ data = <<65, 66, 65, 66, 65, 66, 65>>) =>
        codes = <<65, 66, 256, 258, 65>>

\* C26: for every pair of test_cases, fib_encode(number) is the listed
\* codeword and fib_decode(codeword) is the listed number, 100 with
\* "0001010011" included.
C26_TestCases ==
    \A i \in DOMAIN test_cases :
        /\ (fpc = "encoded" /\ n = test_cases[i][1]) =>
               code = Return(test_cases[i][2])
        /\ (fpc = "decoded_codeword" /\ codeword = test_cases[i][2]) =>
               result = Return(test_cases[i][1])

\* C29: for every non-empty bit stream s and count k that
\* decompress_dataset(s, k) returns a list for,
\* compress_dataset(decompress_dataset(s, k)) is s again: the scan cuts
\* the stream into canonical codewords only.
C29_CompressDecompress ==
    (fpc = "recompressed" /\ stream # <<>>) => compressed = Return(stream)

C29_Witness ==
    /\ fpc = "recompressed"
    /\ stream = <<"0", "1", "1", "1", "1", "1", "1">>
    /\ expected_count = 3
    /\ decompressed = Return(<<2, 1, 1>>)
    /\ compressed = Return(stream)

\* C30 as stated: for every bit string c that fib_decode returns a value
\* for, fib_encode(fib_decode(c)) is c.
C30_EncodeDecode ==
    fpc = "reencoded" => code = Return(codeword)

\* the bit string c holds "11" at its last two bits and nowhere else
Canonical(c) ==
    /\ EndsWith11(c)
    /\ \A i \in 1..(Len(c) - 2) : ~Bigram11At(c, i)

\* C30, amended: for every bit string c that fib_decode returns a value
\* for and that holds "11" at its last two bits only,
\* fib_encode(fib_decode(c)) is c; fib_decode also takes a string with an
\* earlier "11": "0111" decodes to 5, the value of "00011".
C30_EncodeDecodeCanonical ==
    /\ (fpc = "reencoded" /\ Canonical(codeword)) => code = Return(codeword)
    /\ (fpc = "reencoded" /\ codeword = <<"0", "1", "1", "1">>) =>
           /\ result = Return(5)
           /\ code = Return(<<"0", "0", "0", "1", "1">>)

C30_Witness ==
    /\ fpc = "reencoded"
    /\ codeword = <<"1", "0", "1", "0", "0", "1", "1">>
    /\ result = Return(17)
    /\ code = Return(codeword)

\* the number of binary digits of k > 0: the least width whose range
\* 0 .. 2^width - 1 holds k
RECURSIVE bit_length(_)
bit_length(k) == IF k < 2 THEN 1 ELSE 1 + bit_length(k \div 2)

\* the entries of the encoder's dictionary when it emits its i-th code:
\* one entry added with each code emitted before
SizeWhenEmitted(i) == AlphabetSize + i - 1

\* C21: convert_lzw_to_binary writes its i-th code with the least width
\* that covers the size the dictionary had when that code was emitted, one
\* bit more as soon as the size has left the range of the width; the width
\* is a matter of the position i alone, not of the code's value.
C21_WidthOfDictionarySize ==
    lpc = "packed" =>
        \A i \in 1..Len(codes) :
            Len(packer.binary_parts[i]) = bit_length(SizeWhenEmitted(i))

\* C27: the dictionary starts with the 256 base entries and gains one
\* entry per code emitted by lzw_compress and per code consumed by
\* lzw_decompress: after a run of k codes it holds 256 + k entries, the
\* dictionary_size of get_lzw_compression_info.
C27_OneEntryPerCode ==
    /\ (lpc = "compressing" /\ cpos = 1) =>
           Len(enc.dictionary) = AlphabetSize
    /\ (lpc = "compressed" /\ codes # <<>>) =>
           Len(enc.dictionary) = dictionary_size(codes)
    /\ (lpc = "decompressed" /\ codes # <<>> /\ dec.ok) =>
           Len(dec.dictionary) = dictionary_size(codes)

---------------------------------------------------------------------------
(* Properties of perform_compression *)

\* the place of a codec in the fixed order Fibonacci, Huffman, LZW
Rank(method) ==
    CASE method = "Fibonacci" -> 1
      [] method = "Huffman" -> 2
      [] method = "LZW" -> 3

\* the compressed size reported for a codec
Size(method) ==
    CASE method = "Fibonacci" -> comparison.val.fib_bytes
      [] method = "Huffman" -> comparison.val.huffman_bytes
      [] method = "LZW" -> comparison.val.lzw_bytes

\* the codecs that did not fail: in perform_compression those whose call
\* did not raise, in the analysis alone those of a size above 0
NotFailed ==
    IF apc = "compared"
    THEN {"Fibonacci", "Huffman", "LZW"} \ araising
    ELSE {method \in {"Fibonacci", "Huffman", "LZW"} : Size(method) > 0}

\* C22: best_method is the codec of the smallest compressed size among
\* the codecs that did not fail, and of two or more codecs of that size
\* the first in the order Fibonacci, Huffman, LZW.
C22_BestMethod ==
    (apc \in {"compared", "analysed"} /\ comparison.ok /\ NotFailed # {}) =>
        LET best == comparison.val.best_method
        IN  /\ best \in NotFailed
            /\ \A method \in NotFailed :
                   \/ Size(best) < Size(method)
                   \/ Size(best) = Size(method) /\ Rank(best) <= Rank(method)

C22_Witness ==
    /\ apc = "analysed"
    /\ sizes = <<3, 2, 2>>
    /\ comparison.ok
    /\ comparison.val.best_method = "Huffman"

\* the codecs whose call raises on the list given to perform_compression
Failed ==
    araising \cup (IF compress_dataset(anumbers).ok THEN {}
                                                    ELSE {"Fibonacci"})

\* C23: in perform_compression a failure of one codec, Fibonacci, Huffman
\* or LZW, takes that codec alone out of the comparison: the function
\* still returns, the failed codec with size 0 and the other two with
\* their sizes and ratios.
C23_FailureIsolated ==
    (apc = "compared" /\ anumbers # <<>> /\ Failed # {}) =>
        /\ comparison.ok
        /\ \A method \in {"Fibonacci", "Huffman", "LZW"} :
               IF method \in Failed
               THEN Size(method) = 0
               ELSE Size(method) > 0

---------------------------------------------------------------------------
(* Properties of concurrent calls *)

\* the outcome of a call run alone
Alone(fn, args) ==
    CASE fn = "lzw_compress" -> Return(lzw_compress(args[1]))
      [] fn = "build_huffman_tree" -> Return(build_huffman_tree(args[1]))
      [] fn = "decompress_dataset" -> decompress_dataset(args[1], args[2])

\* C24: codec calls that run concurrently on independent datasets, their
\* steps interleaved in any order, each return what the same call returns
\* when it runs alone: the dictionary, the heap and the bit buffers are
\* locals of the call.
C24_ConcurrentCalls ==
    \A t \in ThreadIds :
        threads[t].pc = "returned" =>
            threads[t].outcome = Alone(threads[t].fn, threads[t].args)

C24_Witness ==
    /\ threads[1].pc = "running"
    /\ threads[1].fn = "lzw_compress"
    /\ threads[1].args = <<<<65, 66, 65>>>>
    /\ threads[1].locals.i = 3
    /\ threads[2] = Returned("lzw_compress", <<<<65, 65, 65>>>>,
                             Return(<<65, 256>>))

===========================================================================
